---------------------------- MODULE Spec2Model ----------------------------
(***************************************************************************)
(* Location extraction and scoring pipeline of MommyNature                 *)
(* (backend/reddit_scraper.py, backend/google_places.py,                   *)
(* backend/gpt_extraction.py).                                             *)
(*                                                                         *)
(* Representation                                                          *)
(*   - a Python str is a sequence of one-character strings, so that        *)
(*     lower(), strip(), startswith(), replace(), split(), title() and     *)
(*     the `in` substring test are computed as Python computes them;       *)
(*   - a float that carries a score is an integer number of tenths         *)
(*     (reddit_score, google_score, score, boosts, rating) or of           *)
(*     hundredths (the community score while it is accumulated);           *)
(*   - round(x, 1) rounds to the nearest tenth.  When the exact decimal    *)
(*     value lies half way between two tenths, the binary floating point   *)
(*     evaluation decides the direction (round(0.45000000000000007, 1) is  *)
(*     0.5, round(1.75, 1) is 1.8, round(0.25, 1) is 0.2): the direction   *)
(*     is an input `tie_up` of each rounding, chosen by the environment.   *)
(*                                                                         *)
(* Specifications                                                          *)
(*   Spec            get_top_locations_by_score: scoring, ranking, then    *)
(*                   _validate_locations_with_google_places;               *)
(*   ScoringSpec     the same up to the call of the validator;             *)
(*   ValidationSpec  the validator called with a list of candidates;       *)
(*   HelperSpec      one call of one helper function;                      *)
(*   EntrySpec       extract_top_locations_from_url: fetch, mining, the    *)
(*                   pipeline of Spec, then the save;                      *)
(*   CacheSpec       the file cache and the key-value cache, given the     *)
(*                   same calls;                                           *)
(*   ConcurrentSpec  two threads in add_locations for one city and         *)
(*                   category;                                             *)
(*   BatchSpec       process_batch calls on one BatchProcessor             *)
(*                   (backend/batch_processor.py).                         *)
(***************************************************************************)
EXTENDS Integers, Sequences, FiniteSets, TLC

VARIABLES
    pc,                  \* position of the pipeline invocation
    results,             \* argument `results` of get_top_locations_by_score
    top_n,               \* argument `top_n`
    category,            \* argument `category`
    cursor,              \* <<post index, comment index>> of the scoring loops
    location_scores,     \* dict of get_top_locations_by_score, in insertion order
    reddit_locations,    \* the ranked, truncated list handed to validation
    vindex,              \* number of candidates the validation loop has handled
    validated_locations, \* list built by _validate_locations_with_google_places
    queries,             \* history: location name and outcome of each directory query
    call,                \* a call of one helper function: its name and arguments
    ret,                 \* the value that call returned
    request,             \* arguments of extract_top_locations_from_url
    database,            \* content of locations_database.json
    effects,             \* history: what the entry point did ("fetch", "mine", "save")
    returned,            \* what extract_top_locations_from_url returned
    cache_data,          \* GPTCacheService.cache_data
    redis,               \* the key-value store of VercelKVCacheService
    answers,             \* what the last call returned, from each cache service
    threads,             \* the executor threads that run add_locations
    added,               \* history: the locations added per (city, category) since the last clear_cache
    processor,           \* the fields of a BatchProcessor
    batch_run            \* history: the number of process_batch calls, and the last one's
                         \* argument, location requests and return value

entry_vars == <<request, database, effects, returned>>

cache_vars == <<cache_data, redis, answers, threads, added>>

batch_vars == <<processor, batch_run>>

vars == <<pc, results, top_n, category, cursor, location_scores, reddit_locations,
          vindex, validated_locations, queries, call, ret, entry_vars, cache_vars, batch_vars>>

pipeline_vars == <<pc, results, top_n, category, cursor, location_scores,
                   reddit_locations, vindex, validated_locations, queries>>

-----------------------------------------------------------------------------
(* Bounds of the model *)

MaxPosts == 1        \* posts in `results`
MaxComments == 1     \* top comments in the whole of `results`
MaxSites == 2        \* mentions the miner finds in the comment bodies of `results`
MaxCandidates == 2   \* candidates in a list handed to the validator on its own
MaxTypes == 2        \* directory types of one place (helper calls)
MaxMentions == 2     \* mentions in one direct call of the deduplicator
MaxWordLen == 2      \* characters of a single-word name
MaxNames == 3        \* names in one direct call of the deduplicator of name lists

-----------------------------------------------------------------------------
(* Python str *)

LowerCase == <<"a","b","c","d","e","f","g","h","i","j","k","l","m",
               "n","o","p","q","r","s","t","u","v","w","x","y","z">>

UpperCase == <<"A","B","C","D","E","F","G","H","I","J","K","L","M",
               "N","O","P","Q","R","S","T","U","V","W","X","Y","Z">>

UpperSet == {UpperCase[i] : i \in 1..26}

LowerSet == {LowerCase[i] : i \in 1..26}

to_lower == [c \in UpperSet |-> LowerCase[CHOOSE i \in 1..26 : UpperCase[i] = c]]

to_upper == [c \in LowerSet |-> UpperCase[CHOOSE i \in 1..26 : LowerCase[i] = c]]

isupper(c) == c \in UpperSet

islower(c) == c \in LowerSet

iscased(c) == isupper(c) \/ islower(c)

isspace(c) == c \in {" ", "\t", "\n"}

lower_char(c) == IF isupper(c) THEN to_lower[c] ELSE c

upper_char(c) == IF islower(c) THEN to_upper[c] ELSE c

lower(s) == [i \in 1..Len(s) |-> lower_char(s[i])]

\* str.title(): a cased character is upper-cased when the character before it
\* is not cased and lower-cased when it is
title(s) ==
    [i \in 1..Len(s) |->
        IF i > 1 /\ iscased(s[i-1]) THEN lower_char(s[i]) ELSE upper_char(s[i])]

RECURSIVE lstrip(_)
lstrip(s) == IF Len(s) > 0 /\ isspace(Head(s)) THEN lstrip(Tail(s)) ELSE s

RECURSIVE rstrip(_)
rstrip(s) ==
    IF Len(s) > 0 /\ isspace(s[Len(s)]) THEN rstrip(SubSeq(s, 1, Len(s) - 1)) ELSE s

strip(s) == rstrip(lstrip(s))

startswith(s, p) == Len(s) >= Len(p) /\ SubSeq(s, 1, Len(p)) = p

\* `sub in s`
contains(s, sub) ==
    \E i \in 0..(Len(s) - Len(sub)) : SubSeq(s, i + 1, i + Len(sub)) = sub

\* str.replace(old, new): every non-overlapping occurrence, left to right
RECURSIVE replace(_, _, _)
replace(s, old, new) ==
    IF Len(s) < Len(old) THEN s
    ELSE IF startswith(s, old)
         THEN new \o replace(SubSeq(s, Len(old) + 1, Len(s)), old, new)
         ELSE <<Head(s)>> \o replace(Tail(s), old, new)

\* str.split(): the maximal runs of non-whitespace characters
RECURSIVE split(_)
split(s) ==
    LET t == lstrip(s)
    IN  IF Len(t) = 0 THEN <<>>
        ELSE LET ends == {i \in 1..Len(t) : isspace(t[i])}
                 n == IF ends = {} THEN Len(t) + 1
                      ELSE CHOOSE i \in ends : \A j \in ends : i <= j
             IN  <<SubSeq(t, 1, n - 1)>> \o split(SubSeq(t, n, Len(t)))

\* re.sub(r'\s+', ' ', s)
RECURSIVE collapse_spaces(_)
collapse_spaces(s) ==
    IF Len(s) = 0 THEN s
    ELSE IF isspace(Head(s))
         THEN <<" ">> \o collapse_spaces(lstrip(s))
         ELSE <<Head(s)>> \o collapse_spaces(Tail(s))

-----------------------------------------------------------------------------
(* Numbers *)

max(a, b) == IF a >= b THEN a ELSE b

min(a, b) == IF a <= b THEN a ELSE b

\* round(n / d, 1) in tenths, for d > 0; tie_up is the direction the floating
\* point evaluation takes when n / d is exactly half way between two tenths
round1(n, d, tie_up) ==
    LET q == (10 * n) \div d
        r == (10 * n) % d
    IN  IF 2 * r < d THEN q
        ELSE IF 2 * r > d THEN q + 1
        ELSE IF tie_up THEN q + 1 ELSE q

-----------------------------------------------------------------------------
(* Optional values: None is the empty sequence, a value v is <<v>> *)

None == <<>>

Some(v) == <<v>>

-----------------------------------------------------------------------------
(* RedditScraper: normalisation and deduplication *)

KNOWN_VIEWPOINTS ==
    { <<"c","o","m","m","u","n","i","c","a","t","i","o","n","s"," ","h","i","l","l">>,
      <<"m","i","s","s","i","o","n"," ","p","e","a","k">>,
      <<"m","o","u","n","t"," ","h","a","m","i","l","t","o","n">>,
      <<"m","o","u","n","t"," ","u","m","u","n","h","u","m">>,
      <<"t","w","i","n"," ","p","e","a","k","s">>,
      <<"c","o","i","t"," ","t","o","w","e","r">>,
      <<"t","e","l","e","g","r","a","p","h"," ","h","i","l","l">>,
      <<"r","u","s","s","i","a","n"," ","h","i","l","l">>,
      <<"b","e","r","n","a","l"," ","h","e","i","g","h","t","s">>,
      <<"t","a","n","k"," ","h","i","l","l">>,
      <<"c","o","r","o","n","a"," ","h","e","i","g","h","t","s">>,
      <<"m","o","u","n","t"," ","d","i","a","b","l","o">>,
      <<"m","o","u","n","t"," ","t","a","m","a","l","p","a","i","s">>,
      <<"l","i","c","k"," ","o","b","s","e","r","v","a","t","o","r","y">>,
      <<"s","i","e","r","r","a"," ","v","i","s","t","a">>,
      <<"g","r","a","n","d","v","i","e","w">>,
      <<"c","a","s","t","l","e"," ","r","o","c","k">>,
      <<"m","o","n","u","m","e","n","t"," ","p","e","a","k">>,
      <<"r","o","s","e"," ","p","e","a","k">>,
      <<"f","l","a","g"," ","h","i","l","l">> }

prefixes_to_remove ==
    << <<"t","h","e"," ">>,
       <<"m","a","y","b","e"," ">>,
       <<"p","e","r","h","a","p","s"," ">>,
       <<"p","o","s","s","i","b","l","y"," ">>,
       <<"p","r","o","b","a","b","l","y"," ">>,
       <<"a","b","o","u","t"," ">>,
       <<"c","a","l","l","e","d"," ">>,
       <<"n","e","a","r"," ">> >>

\* the loop over prefixes_to_remove: the first prefix that matches is cut, then break
strip_first_prefix(cleaned) ==
    LET cleaned_lower == lower(cleaned)
        hits == {i \in 1..Len(prefixes_to_remove) :
                    startswith(cleaned_lower, prefixes_to_remove[i])}
    IN  IF hits = {} THEN cleaned
        ELSE LET i == CHOOSE h \in hits : \A k \in hits : h <= k
             IN  SubSeq(cleaned, Len(prefixes_to_remove[i]) + 1, Len(cleaned))

\* cleaned_lower.replace('mount ', 'mt ').replace('mt. ', 'mt ')
standardize_mount(cleaned_lower) ==
    replace(replace(cleaned_lower, <<"m","o","u","n","t"," ">>, <<"m","t"," ">>), <<"m","t","."," ">>, <<"m","t"," ">>)

\* variant of has_mount_prefix: the test for 'mt. ' left out
has_mount_prefix_without_dot(cleaned_lower) ==
    \/ startswith(cleaned_lower, <<"m","t"," ">>)
    \/ startswith(cleaned_lower, <<"m","o","u","n","t"," ">>)

\* startswith('mt ') or startswith('mount ') or startswith('mt. ')
has_mount_prefix(cleaned_lower) ==
    \/ startswith(cleaned_lower, <<"m","t"," ">>)
    \/ startswith(cleaned_lower, <<"m","o","u","n","t"," ">>)
    \/ startswith(cleaned_lower, <<"m","t","."," ">>)

normalize_location_name(location) ==
    LET cleaned == strip_first_prefix(strip(location))
        cleaned_lower == lower(cleaned)
        parts == split(standardize_mount(cleaned_lower))
    IN  IF has_mount_prefix(cleaned_lower) /\ Len(parts) >= 2
        THEN <<"M","t"," ">> \o title(parts[2])
        ELSE title(cleaned)

\* GPTLocationExtractor._normalize_location_name
gpt_normalize_location_name(location) ==
    collapse_spaces(
        replace(replace(strip(lower(location)), <<"m","t",".">>, <<"m","o","u","n","t">>), <<"m","t"," ">>, <<"m","o","u","n","t"," ">>))

\* variant of deduplicate_locations: deduplicated.insert(0, ...), the names
\* come out in the reverse of the order they were met in
RECURSIVE deduplicate_locations_prepending(_)
deduplicate_locations_prepending(locations) ==
    IF Len(locations) = 0 THEN <<>>
    ELSE LET before == deduplicate_locations_prepending(
                            SubSeq(locations, 1, Len(locations) - 1))
             location == locations[Len(locations)]
             normalized == gpt_normalize_location_name(strip(location))
             seen == {lower(gpt_normalize_location_name(before[i])) :
                        i \in 1..Len(before)}
         IN  IF Len(strip(location)) = 0 THEN before
             ELSE IF lower(normalized) \in seen THEN before
             ELSE <<strip(location)>> \o before

\* GPTLocationExtractor._deduplicate_locations: blank names are skipped; of the
\* names with the same lower-cased normalized name the first is kept, stripped.
\* `seen` holds the keys of the names kept so far.
RECURSIVE deduplicate_locations(_)
deduplicate_locations(locations) ==
    IF Len(locations) = 0 THEN <<>>
    ELSE LET before == deduplicate_locations(SubSeq(locations, 1, Len(locations) - 1))
             location == locations[Len(locations)]
             normalized == gpt_normalize_location_name(strip(location))
             seen == {lower(gpt_normalize_location_name(before[i])) :
                        i \in 1..Len(before)}
         IN  IF Len(strip(location)) = 0 THEN before
             ELSE IF lower(normalized) \in seen THEN before
             ELSE Append(before, strip(location))

\* stable sort of a list s, largest key first, key[i] being the key of s[i]:
\* sorted(..., reverse=True) and list.sort(reverse=True) keep elements of
\* equal key in their original order
sorted_desc(s, key) ==
    LET rank(i) == 1 + Cardinality({j \in 1..Len(s) :
                        \/ key[j] > key[i]
                        \/ key[j] = key[i] /\ j < i})
    IN  [p \in 1..Len(s) |-> s[CHOOSE i \in 1..Len(s) : rank(i) = p]]

\* index in a list of dict entries of the entry with this key, 0 when absent
index_of(entries, k) ==
    IF \E i \in 1..Len(entries) : entries[i].key = k
    THEN CHOOSE i \in 1..Len(entries) : entries[i].key = k
    ELSE 0

\* variant of merge_mention: on equal confidence the later name wins
merge_mention_last_on_tie(entry, loc) ==
    [entry EXCEPT
        !.name = IF loc.confidence >= entry.max_confidence THEN loc.name ELSE @,
        !.max_confidence = IF loc.confidence >= entry.max_confidence
                           THEN loc.confidence ELSE @,
        !.contexts = Append(@, loc.context)]

\* the else branch of `if normalized_name not in unique_locations:`
merge_mention(entry, loc) ==
    [entry EXCEPT
        !.name = IF loc.confidence > entry.max_confidence THEN loc.name ELSE @,
        !.max_confidence = IF loc.confidence > entry.max_confidence
                           THEN loc.confidence ELSE @,
        !.contexts = Append(@, loc.context)]

\* the dict unique_locations after the loop over `locations`, in insertion order
RECURSIVE unique_locations(_)
unique_locations(locations) ==
    IF Len(locations) = 0 THEN <<>>
    ELSE LET before == unique_locations(SubSeq(locations, 1, Len(locations) - 1))
             loc == locations[Len(locations)]
             normalized_name == normalize_location_name(loc.name)
             i == index_of(before, normalized_name)
         IN  IF i = 0
             THEN Append(before, [key |-> normalized_name,
                                  name |-> loc.name,
                                  contexts |-> <<loc.context>>,
                                  max_confidence |-> loc.confidence])
             ELSE [before EXCEPT ![i] = merge_mention(before[i], loc)]

max_confidence_of(e) == e.max_confidence

deduplicate_and_score_locations(locations) ==
    LET unique == unique_locations(locations)
        sorted_locations ==
            sorted_desc(unique, [i \in 1..Len(unique) |-> max_confidence_of(unique[i])])
    IN  [i \in 1..Len(sorted_locations) |-> sorted_locations[i].name]

\* confidence of a mention, in hundredths, set by the pass that found it
pass_confidence(context) ==
    CASE context = "recommendation" -> 90
      [] context = "descriptive" -> 80
      [] context = "business" -> 85
      [] context = "quoted" -> 75
      [] context = "nature" -> 70
      [] context = "list" -> 60

\* the six passes in the order extract_locations_from_text runs them
pass_order == <<"recommendation", "descriptive", "business", "quoted", "nature", "list">>

\* A text is the sequence of places where a pass finds a valid name, in text
\* order, each with the pass that finds it.  all_locations lists pass by pass.
RECURSIVE mentions_of_passes(_, _)
mentions_of_passes(text, p) ==
    IF p > Len(pass_order) THEN <<>>
    ELSE SelectSeq([i \in 1..Len(text) |->
                      [name |-> text[i].name, context |-> text[i].context,
                       confidence |-> pass_confidence(text[i].context)]],
                   LAMBDA m : m.context = pass_order[p])
         \o mentions_of_passes(text, p + 1)

extract_locations_from_text(text) ==
    deduplicate_and_score_locations(mentions_of_passes(text, 1))

-----------------------------------------------------------------------------
(* GooglePlacesService *)

\* variant of review_confidence: every band starts one review later (> for >=)
review_confidence_strict(review_count) ==
    IF review_count > 500 THEN 10
    ELSE IF review_count > 100 THEN 9
    ELSE IF review_count > 50 THEN 8
    ELSE IF review_count > 20 THEN 7
    ELSE IF review_count > 10 THEN 6
    ELSE 4

\* confidence factor of calculate_google_score, in tenths
review_confidence(review_count) ==
    IF review_count >= 500 THEN 10
    ELSE IF review_count >= 100 THEN 9
    ELSE IF review_count >= 50 THEN 8
    ELSE IF review_count >= 20 THEN 7
    ELSE IF review_count >= 10 THEN 6
    ELSE 4

\* rating: None or a number of tenths; the result is in tenths.
\* rating_score = (rating - 1) * 2.5 is (rating - 10) * 25 hundredths, and
\* google_score = rating_score * confidence is that times confidence, in thousandths
calculate_google_score(rating, review_count, tie_up) ==
    IF rating = None \/ rating[1] = 0 \/ review_count = 0 THEN 0
    ELSE round1((rating[1] - 10) * 25 * review_confidence(review_count), 1000, tie_up)

\* search_place: http is what the request meets.  http.kind is "no_api_key",
\* "exception" (requests.post raises) or "response" with http.status and,
\* for status 200, http.places (the list result['places'], empty when absent)
search_place(location_name, http) ==
    IF http.kind = "no_api_key" THEN None
    ELSE IF http.kind = "exception" THEN None
    ELSE IF http.status = 200
         THEN IF Len(http.places) > 0
              THEN LET place == http.places[1]
                   IN  Some([name |-> IF place.displayName = None THEN location_name
                                      ELSE place.displayName[1],
                             rating |-> place.rating,
                             review_count |-> place.userRatingCount,
                             types |-> place.types,
                             place_id |-> place.id])
              ELSE None
         ELSE None

\* the number of requests.post calls of one search_place: none without an API
\* key, otherwise the single call of the try block, whatever it meets
search_place_requests(api_key, http) == IF api_key THEN 1 ELSE 0

\* the seconds search_place sleeps: time.sleep(1) before the request and
\* time.sleep(2) after a response of status 429
search_place_slept(api_key, http) ==
    IF ~api_key THEN 0
    ELSE IF http.kind = "response" /\ http.status = 429 THEN 3
    ELSE 1

-----------------------------------------------------------------------------
(* RedditScraper: validation helpers *)

elevation_keywords ==
    { <<"h","i","l","l">>,
      <<"p","e","a","k">>,
      <<"m","o","u","n","t">>,
      <<"m","o","u","n","t","a","i","n">>,
      <<"h","e","i","g","h","t","s">>,
      <<"r","i","d","g","e">>,
      <<"s","u","m","m","i","t">>,
      <<"o","v","e","r","l","o","o","k">>,
      <<"v","i","s","t","a">> }

trail_keywords ==
    { <<"t","r","a","i","l">>,
      <<"p","a","t","h">>,
      <<"c","r","e","e","k">>,
      <<"w","i","l","d","e","r","n","e","s","s">>,
      <<"p","r","e","s","e","r","v","e">> }

viewpoint_categories ==
    { <<"v","i","e","w","p","o","i","n","t","s">>,
      <<"v","i","e","w","p","o","i","n","t">> }

hiking_categories ==
    { <<"h","i","k","i","n","g">>,
      <<"h","i","k","i","n","g","_","t","r","a","i","l","s">>,
      <<"t","r","a","i","l","s">> }

\* variant of is_known_landmark: the name is not lowered before the lookup
is_known_landmark_case_sensitive(original_name) ==
    strip(original_name) \in KNOWN_VIEWPOINTS

\* original_name.lower().strip() in self.KNOWN_VIEWPOINTS
is_known_landmark(original_name) ==
    strip(lower(original_name)) \in KNOWN_VIEWPOINTS

\* the leniency for viewpoint categories
is_geographic_viewpoint(place_types, original_name, categ) ==
    /\ lower(categ) \in viewpoint_categories
    /\ place_types \cap {"neighborhood", "political", "sublocality"} # {}
    /\ \E keyword \in elevation_keywords :
           contains(strip(lower(original_name)), keyword)

\* the leniency for hiking categories
is_hiking_trail(original_name, categ) ==
    /\ lower(categ) \in hiking_categories
    /\ \E keyword \in trail_keywords :
           contains(strip(lower(original_name)), keyword)

\* variant of below_review_floor: a floor of 2 reviews
below_review_floor_of_two(review_count, place_types) ==
    /\ review_count < 2
    /\ place_types \cap {"natural_feature", "park", "tourist_attraction"} = {}

\* `if review_count < 3:` and the natural types that are exempt from it
below_review_floor(review_count, place_types) ==
    /\ review_count < 3
    /\ place_types \cap {"natural_feature", "park", "tourist_attraction"} = {}

\* blocked_types, allowed again from 20 reviews on
is_blocked_area(review_count, place_types) ==
    /\ place_types \cap {"colloquial_area", "country", "administrative_area_level_1"} # {}
    /\ review_count < 20

\* variant of is_political_viewpoint: political areas need 20 reviews in
\* every category
is_political_viewpoint_never(review_count, place_types, categ) == FALSE

\* `if 'political' in place_types:` and its first branch, the viewpoint categories
is_political_viewpoint(review_count, place_types, categ) ==
    /\ "political" \in place_types
    /\ lower(categ) \in viewpoint_categories
    /\ review_count >= 0

\* variant of is_general_locality: localities are allowed from 5 reviews on
is_general_locality_under_five(review_count, place_types) ==
    "locality" \in place_types /\ review_count < 5

\* `if 'locality' in place_types and review_count < 10:`
is_general_locality(review_count, place_types) ==
    "locality" \in place_types /\ review_count < 10

is_valid_google_place(google_data, original_name, categ) ==
    LET review_count == google_data.review_count
        place_types == google_data.types
    IN  IF is_known_landmark(original_name) THEN TRUE
        ELSE IF is_geographic_viewpoint(place_types, original_name, categ) THEN TRUE
        ELSE IF is_hiking_trail(original_name, categ) THEN TRUE
        ELSE IF below_review_floor(review_count, place_types) THEN FALSE
        ELSE IF is_blocked_area(review_count, place_types) THEN FALSE
        ELSE IF is_political_viewpoint(review_count, place_types, categ) THEN TRUE
        ELSE IF "political" \in place_types /\ review_count < 20
             THEN FALSE
        ELSE IF is_general_locality(review_count, place_types) THEN FALSE
        ELSE TRUE

\* boosts are in tenths
context_boosts ==
    [recommendation |-> 15, descriptive |-> 13, business |-> 12,
     quoted |-> 11, nature |-> 10, list |-> 9]

get_context_boost(context) ==
    IF context \in DOMAIN context_boosts THEN context_boosts[context] ELSE 10

\* variant of get_type_boost: the general types are tested first
get_type_boost_general_first(place_types) ==
    IF place_types \cap {"political", "colloquial_area", "locality"} # {}
    THEN 7
    ELSE IF place_types \cap {"point_of_interest", "establishment", "tourist_attraction",
                              "natural_feature", "amusement_park", "park"} # {}
    THEN 12
    ELSE 10

\* high_priority_types are tested before general_types
get_type_boost(place_types) ==
    IF place_types \cap {"point_of_interest", "establishment", "tourist_attraction",
                         "natural_feature", "amusement_park", "park"} # {}
    THEN 12
    ELSE IF place_types \cap {"political", "colloquial_area", "locality"} # {}
    THEN 7
    ELSE 10

-----------------------------------------------------------------------------
(* RedditScraper.get_top_locations_by_score: scoring *)

\* variant of add_location: the dict is keyed by the name as written
add_location_by_raw_name(scores, location, weight, source) ==
    LET normalized_name == location
        i == index_of(scores, normalized_name)
        base == IF i = 0
                THEN Append(scores, [key |-> normalized_name, score |-> 0,
                                     mentions |-> 0, sources |-> <<>>,
                                     original_name |-> location])
                ELSE scores
        j == IF i = 0 THEN Len(base) ELSE i
    IN  [base EXCEPT ![j].score = @ + weight,
                     ![j].mentions = @ + 1,
                     ![j].sources = Append(@, source)]

\* one pass of the body shared by the two inner loops: the entry of the
\* location's normalized name is created when absent, then score, mentions
\* and sources are updated.  weight is in hundredths.
add_location(scores, location, weight, source) ==
    LET normalized_name == normalize_location_name(location)
        i == index_of(scores, normalized_name)
        base == IF i = 0
                THEN Append(scores, [key |-> normalized_name, score |-> 0,
                                     mentions |-> 0, sources |-> <<>>,
                                     original_name |-> location])
                ELSE scores
        j == IF i = 0 THEN Len(base) ELSE i
    IN  [base EXCEPT ![j].score = @ + weight,
                     ![j].mentions = @ + 1,
                     ![j].sources = Append(@, source)]

RECURSIVE add_locations(_, _, _, _)
add_locations(scores, locations, weight, source) ==
    IF Len(locations) = 0 THEN scores
    ELSE add_locations(add_location(scores, Head(locations), weight, source),
                       Tail(locations), weight, source)

\* post_weight = max(1, result['score'] / 10), in hundredths
post_weight(score) == max(100, 10 * score)

\* comment_weight = max(1, comment['score'] / 5), in hundredths
comment_weight(score) == max(100, 20 * score)

\* variant of comment_contribution: the factor 1.5 left out
comment_contribution_unweighted(score) == comment_weight(score)

\* comment_weight * 1.5, in hundredths
comment_contribution(score) == (comment_weight(score) * 15) \div 10

score_of(e) == e.score

\* variant of rank_locations: the first n entries of the dict, not sorted
first_locations(scores, n) ==
    LET kept == SubSeq(scores, 1, min(n, Len(scores)))
    IN  [i \in 1..Len(kept) |->
            [name |-> kept[i].original_name,
             score |-> round1(kept[i].score, 100, FALSE),
             mentions |-> kept[i].mentions,
             sources |-> SubSeq(kept[i].sources, 1, min(3, Len(kept[i].sources)))]]

\* variant of rank_locations: sorted, but not cut to the first n
rank_locations_untruncated(scores, n) ==
    LET kept == sorted_desc(scores, [i \in 1..Len(scores) |-> score_of(scores[i])])
    IN  [i \in 1..Len(kept) |->
            [name |-> kept[i].original_name,
             score |-> round1(kept[i].score, 100, FALSE),
             mentions |-> kept[i].mentions,
             sources |-> SubSeq(kept[i].sources, 1, min(3, Len(kept[i].sources)))]]

\* sorted(location_scores.items(), ...)[:top_n] and the list comprehension;
\* the accumulated scores are whole tenths, so round(data['score'], 1) meets no tie
rank_locations(scores, n) ==
    LET sorted_locations ==
            sorted_desc(scores, [i \in 1..Len(scores) |-> score_of(scores[i])])
        kept == SubSeq(sorted_locations, 1, min(n, Len(sorted_locations)))
    IN  [i \in 1..Len(kept) |->
            [name |-> kept[i].original_name,
             score |-> round1(kept[i].score, 100, FALSE),
             mentions |-> kept[i].mentions,
             sources |-> SubSeq(kept[i].sources, 1, min(3, Len(kept[i].sources)))]]

-----------------------------------------------------------------------------
(* RedditScraper._validate_locations_with_google_places: one candidate *)

\* location.get('context', 'nature')
context_of(location) ==
    IF "context" \in DOMAIN location THEN location.context ELSE "nature"

\* variant of final_score: the weights 0.4 and 0.6 exchanged
final_score_swapped(reddit_score, google_score, context_boost, type_boost) ==
    (6 * reddit_score + 4 * google_score) * context_boost * type_boost

\* combined_score = reddit_score * 0.4 + google_score * 0.6 is
\* (4 * reddit_score + 6 * google_score) hundredths; times the two boosts
\* (tenths each) it is final_score in 1/10000
final_score(reddit_score, google_score, context_boost, type_boost) ==
    (4 * reddit_score + 6 * google_score) * context_boost * type_boost

\* variant of is_kept: the filter is not applied
is_kept_unfiltered(location, google_data, categ) ==
    google_data # None

\* `if google_data:` and `if not self._is_valid_google_place(...): continue`
is_kept(location, google_data, categ) ==
    /\ google_data # None
    /\ is_valid_google_place(google_data[1], location.name, categ)

\* the body of the loop for one location: None when the candidate is skipped,
\* otherwise the record appended to validated_locations.  `candidate` is not a
\* key of the Python dict: it records which candidate the record came from.
validate_location(location, google_data, categ, tie_google, tie_final) ==
    IF ~is_kept(location, google_data, categ) THEN None
    ELSE LET review_count == google_data[1].review_count
             place_types == google_data[1].types
             google_score == calculate_google_score(google_data[1].rating,
                                                    review_count, tie_google)
             reddit_score == location.score
             context_boost == get_context_boost(context_of(location))
             type_boost == get_type_boost(place_types)
         IN  Some([name |-> google_data[1].name,
                   score |-> round1(final_score(reddit_score, google_score,
                                                context_boost, type_boost),
                                    10000, tie_final),
                   reddit_score |-> reddit_score,
                   google_score |-> google_score,
                   context_boost |-> context_boost,
                   type_boost |-> type_boost,
                   mentions |-> location.mentions,
                   sources |-> location.sources,
                   google_rating |-> google_data[1].rating,
                   google_reviews |-> review_count,
                   google_types |-> place_types,
                   place_id |-> google_data[1].place_id,
                   validated |-> TRUE,
                   candidate |-> location.name])

-----------------------------------------------------------------------------
(* Inputs of the pipeline *)

n_mount_hamilton == <<"M","o","u","n","t"," ","H","a","m","i","l","t","o","n">>

n_mt_hamilton == <<"M","t","."," ","H","a","m","i","l","t","o","n">>

n_twin_peaks == <<"T","w","i","n"," ","P","e","a","k","s">>

c_viewpoints == <<"v","i","e","w","p","o","i","n","t","s">>

c_hiking_trails == <<"h","i","k","i","n","g","_","t","r","a","i","l","s">>

n_oak_hill == <<"O","a","k"," ","H","i","l","l">>

n_joe_diner == <<"J","o","e"," ","D","i","n","e","r">>

PipelineNames == {n_mount_hamilton, n_mt_hamilton, n_twin_peaks}

\* a post's `locations` is a list extract_locations_from_text returned: its
\* names have pairwise different normalized names
LocationLists ==
    {<<>>, <<n_mount_hamilton>>, <<n_twin_peaks>>, <<n_mount_hamilton, n_twin_peaks>>}

\* places where a pass of the miner finds a name in a comment body
Sites ==
    { [name |-> n_mt_hamilton, context |-> "recommendation"],
      [name |-> n_mount_hamilton, context |-> "nature"],
      [name |-> n_twin_peaks, context |-> "recommendation"] }

PostScores == {5, 20}

CommentScores == {2, 10}

TopNs == {1, 10}

PipelineCategories == {c_viewpoints, c_hiking_trails}

SeqsUpTo(S, n) == UNION {[1..k -> S] : k \in 0..n}

SeqsFromTo(S, m, n) == UNION {[1..k -> S] : k \in m..n}

\* sequences of k different elements of S
DistinctSeqs(S, k) == {q \in [1..k -> S] : \A i, j \in 1..k : q[i] = q[j] => i = j}

\* the places where the miner finds names in one comment body, at least one
Bodies == UNION {DistinctSeqs(Sites, k) : k \in 1..MaxSites}

RECURSIVE sum_seq(_)
sum_seq(s) == IF Len(s) = 0 THEN 0 ELSE Head(s) + sum_seq(Tail(s))

\* the list `results` of the posts with these scores and location lists; the
\* comment c has score comment_score[c] and body body[c] and is a top comment
\* of the post owner[c]
make_results(post_score, locations, owner, comment_score, body) ==
    [p \in 1..Len(post_score) |->
        [score |-> post_score[p],
         locations |-> locations[p],
         top_comments |->
            LET mine == SelectSeq([c \in 1..Len(owner) |-> c], LAMBDA c : owner[c] = p)
            IN  [k \in 1..Len(mine) |->
                    [score |-> comment_score[mine[k]], body |-> body[mine[k]]]]]]

\* what the places directory can hold (the objects of result['places'])
DirectoryPlaces ==
    { [displayName |-> Some(n_twin_peaks), rating |-> Some(45), userRatingCount |-> 600,
       types |-> {"park", "tourist_attraction"}, id |-> "place_park"],
      [displayName |-> Some(n_mount_hamilton), rating |-> Some(40), userRatingCount |-> 2,
       types |-> {"point_of_interest"}, id |-> "place_poi"],
      [displayName |-> None, rating |-> None, userRatingCount |-> 0,
       types |-> {"political"}, id |-> "place_political"],
      [displayName |-> Some(n_mount_hamilton), rating |-> Some(50), userRatingCount |-> 25,
       types |-> {"locality"}, id |-> "place_locality"],
      [displayName |-> Some(n_twin_peaks), rating |-> Some(25), userRatingCount |-> 3,
       types |-> {"locality"}, id |-> "place_small"] }

\* what a request to the directory can meet
HttpOutcomes ==
    { [kind |-> "no_api_key", status |-> 0, places |-> <<>>],
      [kind |-> "exception", status |-> 0, places |-> <<>>],
      [kind |-> "response", status |-> 429, places |-> <<>>],
      [kind |-> "response", status |-> 500, places |-> <<>>],
      [kind |-> "response", status |-> 200, places |-> <<>>] }
    \cup { [kind |-> "response", status |-> 200, places |-> <<p>>] : p \in DirectoryPlaces }

\* how a query ended, for the record of queries
outcome_of(http) ==
    IF http.kind # "response" THEN http.kind
    ELSE IF http.status = 429 THEN "throttled"
    ELSE IF http.status # 200 THEN "error_status"
    ELSE IF Len(http.places) = 0 THEN "no_match"
    ELSE "match"

\* what a request that is sent can meet
RequestOutcomes == {h \in HttpOutcomes : h.kind # "no_api_key"}

\* what search_place meets when the service has no API key
NoApiKey == [kind |-> "no_api_key", status |-> 0, places |-> <<>>]

-----------------------------------------------------------------------------
(* The pipeline: get_top_locations_by_score, then validation *)

NoCall == [op |-> "none"]

NoRequest == [op |-> "none"]

\* no cache service is in use
NoCache ==
    /\ cache_data = <<>>
    /\ redis = <<>>
    /\ answers = <<>>
    /\ threads = <<>>
    /\ added = <<>>

\* no BatchProcessor is constructed
NoBatch ==
    /\ processor = <<>>
    /\ batch_run = <<>>

\* the entry point is not called
NoEntry ==
    /\ request = NoRequest
    /\ database = <<>>
    /\ effects = {}
    /\ returned = None

\* a call of get_top_locations_by_score with a category among `categories`
PipelineInit(categories) ==
    /\ pc = "score"
    /\ \E p \in 0..MaxPosts, n \in 0..MaxComments :
        \E post_score \in [1..p -> PostScores], locations \in [1..p -> LocationLists],
           owner \in [1..n -> 1..p], comment_score \in [1..n -> CommentScores],
           body \in [1..n -> Bodies] :
            \* comments are listed post by post, with at most MaxSites mined names
            \* in all, and every post names at least one place
            /\ \A c \in 1..(n - 1) : owner[c] <= owner[c + 1]
            /\ sum_seq([c \in 1..n |-> Len(body[c])]) <= MaxSites
            /\ \A i \in 1..p :
                  IF Len(locations[i]) > 0 THEN TRUE ELSE i \in {owner[c] : c \in 1..n}
            /\ results = make_results(post_score, locations, owner, comment_score, body)
    /\ top_n \in TopNs
    /\ category \in categories
    /\ cursor = <<1, 0>>
    /\ location_scores = <<>>
    /\ reddit_locations = <<>>
    /\ vindex = 0
    /\ validated_locations = <<>>
    /\ queries = <<>>
    /\ call = NoCall
    /\ ret = None
    /\ NoEntry
    /\ NoCache
    /\ NoBatch

Init == PipelineInit(PipelineCategories)

\* where the loops stand after the comment c of post p (c = 0: after the
\* post's own locations)
after(p, c) ==
    IF c < Len(results[p].top_comments) THEN <<p, c + 1>> ELSE <<p + 1, 0>>

\* for location in result['locations']: ...
ScorePost ==
    /\ pc = "score"
    /\ cursor[1] <= Len(results)
    /\ cursor[2] = 0
    /\ LET p == cursor[1]
       IN  /\ location_scores' =
                add_locations(location_scores, results[p].locations,
                              post_weight(results[p].score),
                              [kind |-> "Post", post |-> p, comment |-> 0])
           /\ cursor' = after(p, 0)
    /\ UNCHANGED <<pc, results, top_n, category, reddit_locations, vindex,
                   validated_locations, queries, call, ret, entry_vars, cache_vars, batch_vars>>

\* for comment in result['top_comments']: ...
ScoreComment ==
    /\ pc = "score"
    /\ cursor[1] <= Len(results)
    /\ cursor[2] > 0
    /\ LET p == cursor[1]
           c == cursor[2]
           comment == results[p].top_comments[c]
       IN  /\ location_scores' =
                add_locations(location_scores,
                              extract_locations_from_text(comment.body),
                              comment_contribution(comment.score),
                              [kind |-> "Comment", post |-> p, comment |-> c])
           /\ cursor' = after(p, c)
    /\ UNCHANGED <<pc, results, top_n, category, reddit_locations, vindex,
                   validated_locations, queries, call, ret, entry_vars, cache_vars, batch_vars>>

\* the sort, the truncation to top_n and the call of the validator
RankLocations ==
    /\ pc = "score"
    /\ cursor[1] > Len(results)
    /\ reddit_locations' = rank_locations(location_scores, top_n)
    /\ pc' = "validate"
    /\ UNCHANGED <<results, top_n, category, cursor, location_scores, vindex,
                   validated_locations, queries, call, ret, entry_vars, cache_vars, batch_vars>>

\* variant of next_candidate: a query without data ends the loop
next_candidate_or_abort(index, google_data, n) ==
    IF google_data = None THEN n ELSE index + 1

\* `for location in locations`: the loop goes on to the next of the n
\* candidates whatever search_place returned; nothing in the body raises
next_candidate(index, google_data, n) == index + 1

\* one iteration of `for location in locations` in the validator
ValidateLocation ==
    /\ pc = "validate"
    /\ vindex < Len(reddit_locations)
    /\ \E http \in HttpOutcomes :
        LET location == reddit_locations[vindex + 1]
            google_data == search_place(location.name, http)
        IN  /\ queries' = Append(queries, [name |-> location.name,
                                           met |-> outcome_of(http),
                                           google_data |-> google_data])
            /\ IF is_kept(location, google_data, category)
               THEN \E tie_google \in BOOLEAN, tie_final \in BOOLEAN :
                        validated_locations' = validated_locations
                            \o validate_location(location, google_data, category,
                                                 tie_google, tie_final)
               ELSE validated_locations' = validated_locations
            /\ vindex' = next_candidate(vindex, google_data, Len(reddit_locations))
    /\ UNCHANGED <<pc, results, top_n, category, cursor, location_scores,
                   reddit_locations, call, ret, entry_vars, cache_vars, batch_vars>>

\* variant of sort_by_score: the list is returned in the order of validation
in_validation_order(locations) == locations

\* validated_locations.sort(key=lambda x: x['score'], reverse=True)
sort_by_score(locations) ==
    sorted_desc(locations, [i \in 1..Len(locations) |-> score_of(locations[i])])

\* the sort of validated_locations and the return
ReturnValidated ==
    /\ pc = "validate"
    /\ vindex = Len(reddit_locations)
    /\ validated_locations' = sort_by_score(validated_locations)
    /\ pc' = "done"
    /\ UNCHANGED <<results, top_n, category, cursor, location_scores,
                   reddit_locations, vindex, queries, call, ret, entry_vars, cache_vars, batch_vars>>

Next ==
    \/ ScorePost
    \/ ScoreComment
    \/ RankLocations
    \/ ValidateLocation
    \/ ReturnValidated

Spec == Init /\ [][Next]_vars

-----------------------------------------------------------------------------
(* get_top_locations_by_score up to the call of the validator *)

ScoringInit == PipelineInit({c_viewpoints})

ScoringNext ==
    \/ ScorePost
    \/ ScoreComment
    \/ RankLocations

ScoringSpec == ScoringInit /\ [][ScoringNext]_vars

-----------------------------------------------------------------------------
(* _validate_locations_with_google_places called with a list of candidates *)

CandidateNames == {n_mount_hamilton, n_twin_peaks, n_oak_hill, n_joe_diner}

\* community scores in tenths
CandidateScores == {15, 50}

\* a candidate as get_top_locations_by_score builds it
Candidates ==
    [name : CandidateNames, score : CandidateScores, mentions : {1},
     sources : {<<[kind |-> "Post", post |-> 1, comment |-> 0]>>}]

\* the candidates of a list have pairwise different names
CandidateLists ==
    {l \in SeqsUpTo(Candidates, MaxCandidates) :
        \A i, j \in 1..Len(l) : l[i].name = l[j].name => i = j}

ValidationInit ==
    /\ pc = "validate"
    /\ results = <<>>
    /\ top_n = 10
    /\ category \in PipelineCategories
    /\ cursor = <<1, 0>>
    /\ location_scores = <<>>
    /\ reddit_locations \in CandidateLists
    /\ vindex = 0
    /\ validated_locations = <<>>
    /\ queries = <<>>
    /\ call = NoCall
    /\ ret = None
    /\ NoEntry
    /\ NoCache
    /\ NoBatch

ValidationNext ==
    \/ ValidateLocation
    \/ ReturnValidated

ValidationSpec == ValidationInit /\ [][ValidationNext]_vars

-----------------------------------------------------------------------------
(* Calls of the helper functions on their own *)

MountPrefixes == {<<"m","o","u","n","t"," ">>, <<"m","t","."," ">>, <<"m","t"," ">>}

WordAlphabet == {"a", "m", "t", "."}

\* single-word names, in lower case
Words == SeqsFromTo(WordAlphabet, 1, MaxWordLen)

\* every letter case of a string
case_variants(str) ==
    {[i \in 1..Len(str) |-> IF i \in U THEN upper_char(str[i]) ELSE str[i]] :
        U \in SUBSET (1..Len(str))}

MountSpellings == UNION {case_variants(p \o x) : p \in MountPrefixes, x \in Words}

n_mt_hamilton_lower == <<"m","t"," ","h","a","m","i","l","t","o","n">>

n_the_twin_peaks == <<"t","h","e"," ","T","w","i","n"," ","P","e","a","k","s">>

n_twin_peaks_padded == <<" ","t","w","i","n"," ","p","e","a","k","s"," ">>

n_oak_trail == <<"O","a","k"," ","T","r","a","i","l">>

HamiltonSpellings == {n_mt_hamilton, n_mount_hamilton, n_mt_hamilton_lower}

n_mount_san_antonio == <<"M","o","u","n","t"," ","S","a","n"," ","A","n","t","o","n","i","o">>

n_mt_san_jacinto == <<"M","t","."," ","S","a","n"," ","J","a","c","i","n","t","o">>

n_mount_diablo == <<"M","o","u","n","t"," ","D","i","a","b","l","o">>

n_mount_diablo_state_park == <<"M","o","u","n","t"," ","D","i","a","b","l","o"," ","S","t","a","t","e"," ","P","a","r","k">>

\* names of different places that begin with Mount or Mt.
LongMountNames ==
    {n_mount_san_antonio, n_mt_san_jacinto, n_mount_diablo, n_mount_diablo_state_park}

NormalizeInputs ==
    MountSpellings \cup HamiltonSpellings \cup LongMountNames
        \cup {n_twin_peaks, n_the_twin_peaks, n_oak_hill}

n_blank == <<" ">>

\* names as the GPT extraction hands them to _deduplicate_locations
GptNames ==
    HamiltonSpellings
        \cup {n_twin_peaks, n_twin_peaks_padded, n_the_twin_peaks, n_blank, <<>>}

Contexts == {"recommendation", "descriptive", "business", "quoted", "nature", "list"}

DedupMentions ==
    {[name |-> n, context |-> c, confidence |-> pass_confidence(c)] :
        n \in HamiltonSpellings \cup {n_twin_peaks, n_the_twin_peaks}, c \in Contexts}

ValidatorNames ==
    {n_twin_peaks, n_twin_peaks_padded, n_mt_hamilton, n_oak_hill, n_oak_trail, n_joe_diner}

c_viewpoint_capital == <<"V","i","e","w","p","o","i","n","t">>

c_hiking == <<"h","i","k","i","n","g">>

c_hiking_spots == <<"h","i","k","i","n","g","_","s","p","o","t","s">>

c_empty == <<>>

ValidatorCategories ==
    {c_viewpoints, c_viewpoint_capital, c_hiking, c_hiking_trails, c_hiking_spots, c_empty}

PlaceTypes ==
    {"natural_feature", "park", "tourist_attraction", "point_of_interest",
     "establishment", "amusement_park", "political", "colloquial_area", "locality",
     "neighborhood", "sublocality", "country", "administrative_area_level_1", "store"}

TypeSets == {t \in SUBSET PlaceTypes : Cardinality(t) <= MaxTypes}

\* review counts on both sides of every threshold of the code
FilterReviewCounts == {0, 2, 3, 9, 10, 19, 20}

ScoreReviewCounts == {0, 1, 9, 10, 19, 20, 49, 50, 99, 100, 499, 500, 1000}

\* None, 0 and 1.0 .. 5.0 in tenths
Ratings == {None, Some(0)} \cup {Some(r) : r \in 10..50}

\* c is a call of one of the helper functions
HelperCalls(c) ==
    \/ \E n \in NormalizeInputs :
          c = [op |-> "RedditScraper._normalize_location_name", location |-> n]
    \/ \E n \in NormalizeInputs :
          c = [op |-> "GPTLocationExtractor._normalize_location_name", location |-> n]
    \/ \E l \in SeqsUpTo(DedupMentions, MaxMentions) :
          c = [op |-> "_deduplicate_and_score_locations", locations |-> l]
    \/ \E rc \in FilterReviewCounts, t \in TypeSets, n \in ValidatorNames,
          categ \in ValidatorCategories :
          c = [op |-> "_is_valid_google_place",
               google_data |-> [review_count |-> rc, types |-> t],
               original_name |-> n, category |-> categ]
    \/ \E t \in TypeSets : c = [op |-> "_get_type_boost", place_types |-> t]
    \/ \E context \in Contexts \cup {"other"} :
          c = [op |-> "_get_context_boost", context |-> context]
    \/ \E r \in Ratings, rc \in ScoreReviewCounts :
          c = [op |-> "calculate_google_score", rating |-> r, review_count |-> rc]
    \/ \E l \in SeqsUpTo(GptNames, MaxNames) :
          c = [op |-> "_deduplicate_locations", locations |-> l]
    \/ \E k \in BOOLEAN, n \in {n_twin_peaks, n_joe_diner},
          first \in RequestOutcomes, second \in RequestOutcomes :
          c = [op |-> "search_place", api_key |-> k, location_name |-> n,
               responses |-> <<first, second>>]

HelperInit ==
    /\ pc = "idle"
    /\ results = <<>>
    /\ top_n = 0
    /\ category = <<>>
    /\ cursor = <<0, 0>>
    /\ location_scores = <<>>
    /\ reddit_locations = <<>>
    /\ vindex = 0
    /\ validated_locations = <<>>
    /\ queries = <<>>
    /\ HelperCalls(call)
    /\ ret = None
    /\ NoEntry
    /\ NoCache
    /\ NoBatch

CallNormalizeLocationName ==
    /\ call.op = "RedditScraper._normalize_location_name"
    /\ ret = None
    /\ ret' = Some(normalize_location_name(call.location))
    /\ UNCHANGED <<pipeline_vars, call, entry_vars, cache_vars, batch_vars>>

CallGptNormalizeLocationName ==
    /\ call.op = "GPTLocationExtractor._normalize_location_name"
    /\ ret = None
    /\ ret' = Some(gpt_normalize_location_name(call.location))
    /\ UNCHANGED <<pipeline_vars, call, entry_vars, cache_vars, batch_vars>>

CallDeduplicate ==
    /\ call.op = "_deduplicate_and_score_locations"
    /\ ret = None
    /\ ret' = Some(deduplicate_and_score_locations(call.locations))
    /\ UNCHANGED <<pipeline_vars, call, entry_vars, cache_vars, batch_vars>>

CallIsValidGooglePlace ==
    /\ call.op = "_is_valid_google_place"
    /\ ret = None
    /\ ret' = Some(is_valid_google_place(call.google_data, call.original_name,
                                         call.category))
    /\ UNCHANGED <<pipeline_vars, call, entry_vars, cache_vars, batch_vars>>

CallGetTypeBoost ==
    /\ call.op = "_get_type_boost"
    /\ ret = None
    /\ ret' = Some(get_type_boost(call.place_types))
    /\ UNCHANGED <<pipeline_vars, call, entry_vars, cache_vars, batch_vars>>

CallGetContextBoost ==
    /\ call.op = "_get_context_boost"
    /\ ret = None
    /\ ret' = Some(get_context_boost(call.context))
    /\ UNCHANGED <<pipeline_vars, call, entry_vars, cache_vars, batch_vars>>

CallCalculateGoogleScore ==
    /\ call.op = "calculate_google_score"
    /\ ret = None
    /\ \E tie_up \in BOOLEAN :
        ret' = Some(calculate_google_score(call.rating, call.review_count, tie_up))
    /\ UNCHANGED <<pipeline_vars, call, entry_vars, cache_vars, batch_vars>>

\* _deduplicate_locations, and _deduplicate_locations again on what it returned
CallGptDeduplicate ==
    /\ call.op = "_deduplicate_locations"
    /\ ret = None
    /\ LET deduplicated == deduplicate_locations(call.locations)
       IN  ret' = Some([once |-> deduplicated,
                        twice |-> deduplicate_locations(deduplicated)])
    /\ UNCHANGED <<pipeline_vars, call, entry_vars, cache_vars, batch_vars>>

\* one call of search_place; call.responses are what the directory would
\* answer to the first and to a second request of the call
CallSearchPlace ==
    /\ call.op = "search_place"
    /\ ret = None
    /\ LET http == IF call.api_key THEN call.responses[1] ELSE NoApiKey
       IN  ret' = Some([result |-> search_place(call.location_name, http),
                        requests |-> search_place_requests(call.api_key, http),
                        slept |-> search_place_slept(call.api_key, http)])
    /\ UNCHANGED <<pipeline_vars, call, entry_vars, cache_vars, batch_vars>>

HelperNext ==
    \/ CallNormalizeLocationName
    \/ CallGptNormalizeLocationName
    \/ CallDeduplicate
    \/ CallIsValidGooglePlace
    \/ CallGetTypeBoost
    \/ CallGetContextBoost
    \/ CallCalculateGoogleScore
    \/ CallSearchPlace
    \/ CallGptDeduplicate

HelperSpec == HelperInit /\ [][HelperNext]_vars

-----------------------------------------------------------------------------
(* RedditScraper.extract_top_locations_from_url, the entry point of the pipeline *)

Digits == {"0","1","2","3","4","5","6","7","8","9"}

\* the characters of the class [a-zA-Z0-9]
isalnum(c) == c \in LowerSet \cup UpperSet \cup Digits

\* the longest run of [a-zA-Z0-9] that starts at position i of s
RECURSIVE alnum_run(_, _)
alnum_run(s, i) ==
    IF i <= Len(s) /\ isalnum(s[i]) THEN <<s[i]>> \o alnum_run(s, i + 1) ELSE <<>>

\* re.search(r'/comments/([a-zA-Z0-9]+)', url): group 1 of the leftmost match,
\* None without a match
extract_submission_id(reddit_url) ==
    LET marker == <<"/","c","o","m","m","e","n","t","s","/">>
        starts == {i \in 1..(Len(reddit_url) - Len(marker)) :
                      /\ SubSeq(reddit_url, i, i + Len(marker) - 1) = marker
                      /\ isalnum(reddit_url[i + Len(marker)])}
    IN  IF starts = {} THEN None
        ELSE LET first == CHOOSE i \in starts : \A j \in starts : i <= j
             IN  Some(alnum_run(reddit_url, first + Len(marker)))

\* all_text is title, selftext and the comment bodies joined by spaces: the
\* miner finds in it what it finds in the parts, in that order
RECURSIVE all_text_from(_, _)
all_text_from(text, comments) ==
    IF Len(comments) = 0 THEN text
    ELSE all_text_from(text \o Head(comments).body, Tail(comments))

all_text(submission_data) ==
    all_text_from(submission_data.title, submission_data.comments)

\* the list `results` built for get_top_locations_by_score
results_of(submission_data) ==
    <<[title |-> submission_data.title,
       score |-> submission_data.score,
       locations |-> extract_locations_from_text(all_text(submission_data)),
       top_comments |-> submission_data.comments]>>

\* `for location in top_locations:` adds city, category and source_url
with_metadata(top_locations, city, categ, source_url) ==
    [i \in 1..Len(top_locations) |->
        [location |-> top_locations[i], city |-> city, category |-> categ,
         source_url |-> source_url]]

\* database[city][category] = entry
put(stored, city, categ, entry) ==
    [k \in DOMAIN stored |-> IF k = <<city, categ>> THEN entry ELSE stored[k]]

\* save_locations_for_city_category: the database is loaded ({} when loading
\* fails), the entry of (city, category) is replaced, and the database is
\* written back, unless writing fails.  updated_at is left out.
save_locations_for_city_category(stored, city, categ, locations, load_ok, save_ok) ==
    LET loaded == IF load_ok THEN stored ELSE [k \in DOMAIN stored |-> None]
    IN  IF save_ok
        THEN put(loaded, city, categ,
                 Some([locations |-> locations, count |-> Len(locations)]))
        ELSE stored

u_thread == <<"/","r","/","s","j","/","c","o","m","m","e","n","t","s","/","1","a","B","/","v","i","e","w","s">>

u_no_id == <<"/","r","/","s","j","/","c","o","m","m","e","n","t","s","/">>

u_subreddit == <<"/","r","/","s","j">>

RedditUrls == {u_thread, u_no_id, u_subreddit}

c_restaurants == <<"r","e","s","t","a","u","r","a","n","t","s">>

EntryCategories == PipelineCategories \cup {c_restaurants}

Cities == {"San Jose, CA", "Oakland, CA"}

Requests ==
    [reddit_url : RedditUrls, city : {"San Jose, CA"}, category : EntryCategories,
     target_count : TopNs]

\* what an earlier run stored
stored_earlier ==
    Some([locations |-> with_metadata(<<>>, "Oakland, CA", c_viewpoints, u_thread),
          count |-> 0])

\* the database before the call: empty, or with entries of earlier runs, the
\* request's own (city, category) among them or not
InitialDatabases(req) ==
    LET empty == [k \in Cities \X EntryCategories |-> None]
        other == put(empty, "Oakland, CA", c_viewpoints, stored_earlier)
    IN  {empty, other, put(other, req.city, req.category, stored_earlier)}

\* title and selftext of a submission, as the places where the miner finds names
Titles == {<<>>, <<[name |-> n_twin_peaks, context |-> "nature"]>>}

\* what get_submission_with_comments returns when the fetch succeeds: the
\* comments are those it kept (body longer than 20 characters)
Submissions ==
    {[title |-> t, score |-> 20, comments |-> <<>>] : t \in Titles}
    \cup {[title |-> t, score |-> 20,
           comments |-> <<[score |-> cs, body |-> b]>>] :
            t \in Titles, cs \in CommentScores, b \in Bodies}

EntryInit ==
    /\ pc = "entry"
    /\ results = <<>>
    /\ top_n = 0
    /\ category = <<>>
    /\ cursor = <<1, 0>>
    /\ location_scores = <<>>
    /\ reddit_locations = <<>>
    /\ vindex = 0
    /\ validated_locations = <<>>
    /\ queries = <<>>
    /\ call = NoCall
    /\ ret = None
    /\ request \in Requests
    /\ database \in InitialDatabases(request)
    /\ effects = {}
    /\ returned = None
    /\ NoCache
    /\ NoBatch

\* extract_top_locations_from_url returns `value`
returns(value) == returned' = Some([raised |-> FALSE, value |-> value])

\* the entry point up to its call of get_top_locations_by_score: the submission
\* id, the fetch (get_submission_with_comments returns None when anything in
\* it raises), the mining of all_text and the list `results`
FetchAndMine ==
    /\ pc = "entry"
    /\ LET submission_id == extract_submission_id(request.reddit_url)
       IN  IF submission_id = None
           THEN /\ returns(<<>>)
                /\ pc' = "returned"
                /\ UNCHANGED <<results, top_n, category, effects>>
           ELSE \/ /\ effects' = effects \cup {"fetch", "fetch failed"}
                   /\ returns(<<>>)
                   /\ pc' = "returned"
                   /\ UNCHANGED <<results, top_n, category>>
                \/ \E submission_data \in Submissions :
                       /\ effects' = effects \cup {"fetch", "mine"}
                       /\ results' = results_of(submission_data)
                       /\ top_n' = request.target_count
                       /\ category' = request.category
                       /\ pc' = "score"
                       /\ UNCHANGED returned
    /\ UNCHANGED <<cursor, location_scores, reddit_locations, vindex,
                   validated_locations, queries, call, ret, request, database, cache_vars, batch_vars>>

\* after get_top_locations_by_score: the metadata, the save and the return
SaveAndReturn ==
    /\ pc = "done"
    /\ request # NoRequest
    /\ LET top_locations == with_metadata(validated_locations, request.city,
                                           request.category, request.reddit_url)
       IN  /\ \E load_ok \in BOOLEAN, save_ok \in BOOLEAN :
                database' = save_locations_for_city_category(
                                database, request.city, request.category,
                                top_locations, load_ok, save_ok)
           /\ returns(top_locations)
    /\ effects' = effects \cup {"save"}
    /\ pc' = "returned"
    /\ UNCHANGED <<results, top_n, category, cursor, location_scores,
                   reddit_locations, vindex, validated_locations, queries,
                   call, ret, request, cache_vars, batch_vars>>

EntryNext ==
    \/ FetchAndMine
    \/ ScorePost
    \/ ScoreComment
    \/ RankLocations
    \/ ValidateLocation
    \/ ReturnValidated
    \/ SaveAndReturn

EntrySpec == EntryInit /\ [][EntryNext]_vars

-----------------------------------------------------------------------------
(* GPTCacheService and VercelKVCacheService                                 *)
(* A dict whose order of insertion matters is a sequence of entries with a  *)
(* field `key`; {} and None are None; the time stamps (cached_at,           *)
(* last_updated, created) are left out.  Values pass through json.dumps and *)
(* json.loads unchanged: they are strings, booleans, numbers, None and      *)
(* lists of these.  The Redis key f"locations:{city}:{category}" is the     *)
(* pair <<city, category>>.  Storage itself does not fail.                  *)

MaxBatch == 2        \* tuples in one batch
MaxRuns == 2         \* process_batch calls on one BatchProcessor
MaxCalls == 3        \* calls made to each cache service

\* the fields of a cache entry that both services write
RECURSIVE concat_all(_)
concat_all(lists) ==
    IF Len(lists) = 0 THEN <<>> ELSE Head(lists) \o concat_all(Tail(lists))

\* cache_entry of GPTCacheService.add_locations
cache_entry(location, city, categ, source_url) ==
    IF location.google_data = None
    THEN [name |-> location.name, verified |-> location.verified, city |-> city,
          category |-> categ, source_url |-> source_url]
    ELSE LET google_data == location.google_data[1]
         IN  [name |-> location.name, verified |-> location.verified, city |-> city,
              category |-> categ, source_url |-> source_url,
              canonical_name |-> google_data.canonical_name,
              google_rating |-> google_data.rating,
              google_reviews |-> google_data.review_count,
              address |-> google_data.address,
              place_id |-> google_data.place_id,
              google_types |-> google_data.types]

\* cache_entry of VercelKVCacheService.add_locations: photo_urls in addition
kv_cache_entry(location, city, categ, source_url) ==
    IF location.google_data = None
    THEN [name |-> location.name, verified |-> location.verified, city |-> city,
          category |-> categ, source_url |-> source_url]
    ELSE LET google_data == location.google_data[1]
         IN  [name |-> location.name, verified |-> location.verified, city |-> city,
              category |-> categ, source_url |-> source_url,
              canonical_name |-> google_data.canonical_name,
              google_rating |-> google_data.rating,
              google_reviews |-> google_data.review_count,
              address |-> google_data.address,
              place_id |-> google_data.place_id,
              google_types |-> google_data.types,
              photo_urls |-> google_data.photo_urls]

\* GPTCacheService.add_locations on cache_data: the city is created when
\* absent, and only then city_metadata and the place_id index are written;
\* the category is created when absent; the entries are appended and
\* total_locations and source_url are updated
file_add_locations(cache, city, categ, verified_locations, source_url, city_place_id, city_metadata) ==
    LET i == index_of(cache.locations, city)
        with_city ==
            IF i = 0
            THEN Append(cache.locations,
                        [key |-> city, city_metadata |-> city_metadata,
                         categories |-> <<>>])
            ELSE cache.locations
        place_id_index ==
            IF i = 0 /\ city_metadata # None /\ city_place_id # None
            THEN [cache.place_id_index EXCEPT ![city_place_id[1]] = Some(city)]
            ELSE cache.place_id_index
        ci == IF i = 0 THEN Len(with_city) ELSE i
        j == index_of(with_city[ci].categories, categ)
        with_category ==
            IF j = 0
            THEN Append(with_city[ci].categories,
                        [key |-> categ, locations |-> <<>>, total_locations |-> 0,
                         source_url |-> None])
            ELSE with_city[ci].categories
        cj == IF j = 0 THEN Len(with_category) ELSE j
        locations ==
            with_category[cj].locations
                \o [k \in 1..Len(verified_locations) |->
                        cache_entry(verified_locations[k], city, categ, source_url)]
        category_data ==
            [with_category[cj] EXCEPT
                !.locations = locations,
                !.total_locations = Len(locations),
                !.source_url = IF source_url # None THEN source_url ELSE @]
    IN  [place_id_index |-> place_id_index,
         locations |-> [with_city EXCEPT
                            ![ci].categories = [with_category EXCEPT ![cj] = category_data]]]

\* `for category_data in city_data.values(): ...extend(category_data["locations"])`:
\* city_metadata, when the city has it, is a value of city_data without the key
\* "locations", and the KeyError ends the call with []
city_locations(city_data) ==
    IF city_data.city_metadata # None THEN [raised |-> TRUE, value |-> <<>>]
    ELSE [raised |-> FALSE,
          value |-> concat_all([k \in 1..Len(city_data.categories) |->
                                    city_data.categories[k].locations])]

\* GPTCacheService.get_locations
file_get_locations(cache, city, categ) ==
    IF city = None /\ categ = None
    THEN LET per_city == [c \in 1..Len(cache.locations) |->
                              city_locations(cache.locations[c])]
         IN  IF \E c \in 1..Len(per_city) : per_city[c].raised THEN <<>>
             ELSE concat_all([c \in 1..Len(per_city) |-> per_city[c].value])
    ELSE IF city # None /\ index_of(cache.locations, city[1]) # 0
    THEN LET city_data == cache.locations[index_of(cache.locations, city[1])]
         IN  IF categ # None /\ index_of(city_data.categories, categ[1]) # 0
             THEN city_data.categories[index_of(city_data.categories, categ[1])].locations
             ELSE IF categ = None THEN city_locations(city_data).value
             ELSE <<>>
    ELSE <<>>

\* GPTCacheService.get_locations_by_place_id
file_get_locations_by_place_id(cache, place_id, categ) ==
    LET city == cache.place_id_index[place_id]
    IN  IF city = None THEN <<>> ELSE file_get_locations(cache, city, categ)

\* GPTCacheService.get_city_by_place_id
file_get_city_by_place_id(cache, place_id) ==
    LET city == cache.place_id_index[place_id]
    IN  IF city = None \/ index_of(cache.locations, city[1]) = 0 THEN None
        ELSE cache.locations[index_of(cache.locations, city[1])].city_metadata

\* json.loads(self.redis.get(locations_key) or "[]")
kv_locations(kv, city, categ) ==
    IF kv.locations[<<city, categ>>] = None THEN <<>> ELSE kv.locations[<<city, categ>>][1]

\* VercelKVCacheService.add_locations: the place_id index and city_metadata
\* are written whenever they are given; the entries are appended to the list
\* read from the store and the list and the metadata are written back
kv_add_locations(kv, city, categ, verified_locations, source_url, city_place_id, city_metadata) ==
    LET existing_locations ==
            kv_locations(kv, city, categ)
                \o [k \in 1..Len(verified_locations) |->
                        kv_cache_entry(verified_locations[k], city, categ, source_url)]
    IN  [place_id_index |->
            IF city_place_id # None
            THEN [kv.place_id_index EXCEPT ![city_place_id[1]] = Some(city)]
            ELSE kv.place_id_index,
         city_metadata |->
            IF city_metadata # None
            THEN [kv.city_metadata EXCEPT ![city] = city_metadata]
            ELSE kv.city_metadata,
         locations |-> put(kv.locations, city, categ, Some(existing_locations)),
         metadata |-> put(kv.metadata, city, categ,
                          Some([total_locations |-> Len(existing_locations),
                                source_url |-> source_url]))]

\* the keys self.redis.keys("locations:*") or keys(f"locations:{city}:*") finds
location_keys(kv, city) ==
    {k \in DOMAIN kv.locations :
        /\ kv.locations[k] # None
        /\ city = None \/ k[1] = city[1]}

\* the orders in which the store may list a set of keys
key_orders(keys) ==
    {order \in [1..Cardinality(keys) -> keys] :
        \A a, b \in 1..Cardinality(keys) : order[a] = order[b] => a = b}

\* VercelKVCacheService.get_locations; `order` is the list of keys the store
\* returned for the pattern
kv_get_locations(kv, city, categ, order) ==
    IF city # None /\ categ # None THEN kv_locations(kv, city[1], categ[1])
    ELSE IF categ = None
    THEN concat_all([k \in 1..Len(order) |-> kv.locations[order[k]][1]])
    ELSE <<>>

\* VercelKVCacheService.get_city_by_place_id
kv_get_city_by_place_id(kv, place_id) ==
    LET city == kv.place_id_index[place_id]
    IN  IF city = None THEN None ELSE kv.city_metadata[city[1]]

CacheCities == {"San Jose", "Oakland"}

CacheCategories == {"viewpoints", "hiking_spots"}

\* the Google place_id of each city
city_place_id_of == [c \in CacheCities |-> IF c = "San Jose" THEN "city_sj" ELSE "city_oak"]

CityPlaceIds == {city_place_id_of[c] : c \in CacheCities}

\* verified locations as _verify_with_google_places returns them: with the
\* directory's data, or unverified when no API key is set
l_verified ==
    [name |-> "Twin Peaks", verified |-> TRUE,
     google_data |-> Some([canonical_name |-> "Twin Peaks", rating |-> 45,
                           review_count |-> 600, address |-> "San Francisco",
                           place_id |-> "place_park", types |-> <<"park">>,
                           photo_urls |-> <<>>])]

l_unverified == [name |-> "Oak Hill", verified |-> FALSE, google_data |-> None]

VerifiedLists == {<<l_verified>>, <<l_unverified>>}

source_thread == Some("https://reddit.com/r/sj/comments/1aB/views")

\* the pipeline is not running and no helper is called
NoPipeline ==
    /\ pc = "idle"
    /\ results = <<>>
    /\ top_n = 0
    /\ category = <<>>
    /\ cursor = <<0, 0>>
    /\ location_scores = <<>>
    /\ reddit_locations = <<>>
    /\ vindex = 0
    /\ validated_locations = <<>>
    /\ queries = <<>>
    /\ call = NoCall
    /\ ret = None

\* both services start empty
EmptyCacheData == [place_id_index |-> [p \in CityPlaceIds |-> None], locations |-> <<>>]

EmptyRedis ==
    [place_id_index |-> [p \in CityPlaceIds |-> None],
     city_metadata |-> [c \in CacheCities |-> None],
     locations |-> [k \in CacheCities \X CacheCategories |-> None],
     metadata |-> [k \in CacheCities \X CacheCategories |-> None]]

\* variant of file_clear_cache: the place_id index is reset, the locations stay
file_clear_cache_index_only(cache) ==
    [cache EXCEPT !.place_id_index = EmptyCacheData.place_id_index]

\* GPTCacheService.clear_cache: cache_data is the empty cache again
file_clear_cache(cache) == EmptyCacheData

\* VercelKVCacheService.clear_cache: every key is deleted
kv_clear_cache(kv) == EmptyRedis

NothingAdded == [k \in CacheCities \X CacheCategories |-> <<>>]

CacheInit ==
    /\ NoPipeline
    /\ NoEntry
    /\ NoBatch
    /\ cache_data = EmptyCacheData
    /\ redis = EmptyRedis
    /\ answers = [calls |-> 0, op |-> "none", file |-> None, kv |-> None]
    /\ threads = <<>>
    /\ added = NothingAdded

\* the same call made to both services
answered(op, file, kv) ==
    answers' = [calls |-> answers.calls + 1, op |-> op, file |-> file, kv |-> kv]

AddLocations ==
    /\ answers.calls < MaxCalls
    /\ \E city \in CacheCities, categ \in CacheCategories,
          verified_locations \in VerifiedLists,
          with_place_id \in BOOLEAN, with_metadata_given \in BOOLEAN :
          LET city_place_id == IF with_place_id THEN Some(city_place_id_of[city]) ELSE None
              city_metadata == IF with_metadata_given THEN Some([name |-> city]) ELSE None
          IN  /\ cache_data' = file_add_locations(cache_data, city, categ,
                                    verified_locations, source_thread,
                                    city_place_id, city_metadata)
              /\ redis' = kv_add_locations(redis, city, categ, verified_locations,
                                           source_thread, city_place_id, city_metadata)
              /\ added' = put(added, city, categ,
                              added[<<city, categ>>] \o verified_locations)
    /\ answered("add_locations", TRUE, TRUE)
    /\ UNCHANGED <<pipeline_vars, call, ret, entry_vars, batch_vars, threads>>

ClearCache ==
    /\ answers.calls < MaxCalls
    /\ cache_data' = file_clear_cache(cache_data)
    /\ redis' = kv_clear_cache(redis)
    /\ added' = NothingAdded
    /\ answered("clear_cache", TRUE, TRUE)
    /\ UNCHANGED <<pipeline_vars, call, ret, entry_vars, batch_vars, threads>>

GetLocations ==
    /\ answers.calls < MaxCalls
    /\ \E city \in {None} \cup {Some(c) : c \in CacheCities},
          categ \in {None} \cup {Some(c) : c \in CacheCategories} :
          \E order \in key_orders(location_keys(redis, city)) :
              answered("get_locations",
                       file_get_locations(cache_data, city, categ),
                       kv_get_locations(redis, city, categ, order))
    /\ UNCHANGED <<pipeline_vars, call, ret, entry_vars, batch_vars, cache_data, redis, threads, added>>

GetLocationsByPlaceId ==
    /\ answers.calls < MaxCalls
    /\ \E place_id \in CityPlaceIds,
          categ \in {None} \cup {Some(c) : c \in CacheCategories} :
          LET city == redis.place_id_index[place_id]
          IN  IF city = None
              THEN answered("get_locations_by_place_id",
                            file_get_locations_by_place_id(cache_data, place_id, categ),
                            <<>>)
              ELSE \E order \in key_orders(location_keys(redis, city)) :
                      answered("get_locations_by_place_id",
                               file_get_locations_by_place_id(cache_data, place_id, categ),
                               kv_get_locations(redis, city, categ, order))
    /\ UNCHANGED <<pipeline_vars, call, ret, entry_vars, batch_vars, cache_data, redis, threads, added>>

GetCityByPlaceId ==
    /\ answers.calls < MaxCalls
    /\ \E place_id \in CityPlaceIds :
          answered("get_city_by_place_id",
                   file_get_city_by_place_id(cache_data, place_id),
                   kv_get_city_by_place_id(redis, place_id))
    /\ UNCHANGED <<pipeline_vars, call, ret, entry_vars, batch_vars, cache_data, redis, threads, added>>

CacheNext ==
    \/ AddLocations
    \/ GetLocations
    \/ GetLocationsByPlaceId
    \/ GetCityByPlaceId
    \/ ClearCache

CacheSpec == CacheInit /\ [][CacheNext]_vars

-----------------------------------------------------------------------------
(* add_locations called from two executor threads                           *)
(* extract_locations hands cache_service.add_locations(city, category,      *)
(* verified_locations, reddit_url) to the default thread pool, so two       *)
(* requests run two calls on the one service object.  A step below is one   *)
(* statement of add_locations (a read of the length and the store of the    *)
(* total are two steps, as the statement evaluates one before it does the   *)
(* other); threads switch between steps.  A thread's category_data refers   *)
(* to a dict: when another thread assigns a new dict in its place, the      *)
(* thread still holds the old one (held = "detached", own = that dict).     *)
(* After the last save_cache the file has the content of cache_data.        *)

Threads == {1, 2}

Services == {"file", "kv"}

shared_city == "San Jose"

shared_category == "viewpoints"

l_other == [name |-> "Mission Peak", verified |-> FALSE, google_data |-> None]

l_earlier == [name |-> "Coyote Hills", verified |-> FALSE, google_data |-> None]

\* verified_locations of each thread's call
Batches(t) ==
    IF t = 1 THEN {<<l_verified>>, <<l_verified, l_unverified>>} ELSE {<<l_other>>}

\* `category in self.cache_data["locations"][city]`
category_in(cache, city, categ) ==
    /\ index_of(cache.locations, city) # 0
    /\ index_of(cache.locations[index_of(cache.locations, city)].categories, categ) # 0

\* self.cache_data["locations"][city][category]
category_of(cache, city, categ) ==
    LET city_data == cache.locations[index_of(cache.locations, city)]
    IN  city_data.categories[index_of(city_data.categories, categ)]

\* self.cache_data["locations"][city] = {}
new_city(cache, city) ==
    LET empty == [key |-> city, city_metadata |-> None, categories |-> <<>>]
        i == index_of(cache.locations, city)
    IN  [cache EXCEPT !.locations = IF i = 0 THEN Append(@, empty)
                                    ELSE [@ EXCEPT ![i] = empty]]

\* self.cache_data["locations"][city][category] = value
set_category(cache, city, categ, value) ==
    LET i == index_of(cache.locations, city)
        j == index_of(cache.locations[i].categories, categ)
    IN  [cache EXCEPT !.locations[i].categories =
            IF j = 0 THEN Append(@, value) ELSE [@ EXCEPT ![j] = value]]

\* {"locations": [], "metadata": {..., "total_locations": 0}}
empty_category(categ) ==
    [key |-> categ, locations |-> <<>>, total_locations |-> 0, source_url |-> None]

\* the threads other than t that hold the stored dict keep it when it is replaced
others_keep(t) ==
    [u \in Threads |->
        IF u # t /\ threads[u].held = "stored"
        THEN [threads[u] EXCEPT
                !.held = "detached",
                !.own = Some(category_of(cache_data, shared_city, shared_category))]
        ELSE threads[u]]

\* the dict a thread's category_data refers to
category_data(t) ==
    IF threads[t].held = "stored"
    THEN category_of(cache_data, shared_city, shared_category)
    ELSE threads[t].own[1]

\* a change of the dict a thread's category_data refers to
category_data_becomes(t, value, pc_after) ==
    IF threads[t].held = "stored"
    THEN /\ cache_data' = set_category(cache_data, shared_city, shared_category, value)
         /\ threads' = [threads EXCEPT ![t].pc = pc_after]
    ELSE /\ cache_data' = cache_data
         /\ threads' = [threads EXCEPT ![t].pc = pc_after, ![t].own = Some(value)]

ConcurrentInit ==
    /\ NoPipeline
    /\ NoEntry
    /\ NoBatch
    /\ answers = <<>>
    /\ added = <<>>
    /\ \E service \in Services, stored_before \in BOOLEAN :
          /\ cache_data =
                IF service = "file" /\ stored_before
                THEN file_add_locations(EmptyCacheData, shared_city, shared_category,
                                        <<l_earlier>>, source_thread, None, None)
                ELSE EmptyCacheData
          /\ redis =
                IF service = "kv" /\ stored_before
                THEN kv_add_locations(EmptyRedis, shared_city, shared_category,
                                      <<l_earlier>>, source_thread, None, None)
                ELSE EmptyRedis
          /\ \E first \in Batches(1), second \in Batches(2) :
                threads = [t \in Threads |->
                            [service |-> service, pc |-> "start",
                             verified_locations |-> IF t = 1 THEN first ELSE second,
                             held |-> "none", own |-> None, appended |-> 0,
                             existing_locations |-> <<>>, total |-> 0,
                             result |-> None]]

at(t, service, label) == threads[t].service = service /\ threads[t].pc = label

file_unchanged == UNCHANGED <<pipeline_vars, call, ret, entry_vars, batch_vars, redis, answers, added>>

kv_unchanged == UNCHANGED <<pipeline_vars, call, ret, entry_vars, batch_vars, cache_data, answers, added>>

\* if city not in self.cache_data["locations"]:
CheckCity(t) ==
    /\ at(t, "file", "start")
    /\ threads' = [threads EXCEPT ![t].pc =
                        IF index_of(cache_data.locations, shared_city) = 0
                        THEN "create_city" ELSE "check_category"]
    /\ UNCHANGED cache_data
    /\ file_unchanged

\* self.cache_data["locations"][city] = {}; no city_metadata is given
CreateCity(t) ==
    /\ at(t, "file", "create_city")
    /\ cache_data' = new_city(cache_data, shared_city)
    /\ threads' = [others_keep(t) EXCEPT ![t].pc = "check_category"]
    /\ file_unchanged

\* if category not in self.cache_data["locations"][city]:
CheckCategory(t) ==
    /\ at(t, "file", "check_category")
    /\ threads' = [threads EXCEPT ![t].pc =
                        IF category_in(cache_data, shared_city, shared_category)
                        THEN "take_category" ELSE "create_category"]
    /\ UNCHANGED cache_data
    /\ file_unchanged

\* self.cache_data["locations"][city][category] = {"locations": [], ...}
CreateCategory(t) ==
    /\ at(t, "file", "create_category")
    /\ cache_data' = set_category(cache_data, shared_city, shared_category,
                                  empty_category(shared_category))
    /\ threads' = [others_keep(t) EXCEPT ![t].pc = "take_category"]
    /\ file_unchanged

\* category_data = self.cache_data["locations"][city][category]; a KeyError,
\* when the city's dict was replaced meanwhile, ends the call with False
TakeCategory(t) ==
    /\ at(t, "file", "take_category")
    /\ threads' = [threads EXCEPT ![t] =
                        IF category_in(cache_data, shared_city, shared_category)
                        THEN [@ EXCEPT !.pc = "append", !.held = "stored"]
                        ELSE [@ EXCEPT !.pc = "done", !.result = Some(FALSE)]]
    /\ UNCHANGED cache_data
    /\ file_unchanged

\* category_data["locations"].append(cache_entry), once per location
AppendEntry(t) ==
    /\ at(t, "file", "append")
    /\ LET k == threads[t].appended + 1
           entry == cache_entry(threads[t].verified_locations[k], shared_city,
                                shared_category, source_thread)
           value == [category_data(t) EXCEPT !.locations = Append(@, entry)]
           pc_after == IF k = Len(threads[t].verified_locations) THEN "count" ELSE "append"
       IN  IF threads[t].held = "stored"
           THEN /\ cache_data' = set_category(cache_data, shared_city, shared_category, value)
                /\ threads' = [threads EXCEPT ![t].pc = pc_after, ![t].appended = k]
           ELSE /\ cache_data' = cache_data
                /\ threads' = [threads EXCEPT ![t].pc = pc_after, ![t].appended = k,
                                              ![t].own = Some(value)]
    /\ file_unchanged

\* len(category_data["locations"])
CountLocations(t) ==
    /\ at(t, "file", "count")
    /\ threads' = [threads EXCEPT ![t].pc = "set_total",
                                  ![t].total = Len(category_data(t).locations)]
    /\ UNCHANGED cache_data
    /\ file_unchanged

\* category_data["metadata"]["total_locations"] = ...; ["source_url"] = source_url
SetTotal(t) ==
    /\ at(t, "file", "set_total")
    /\ category_data_becomes(t, [category_data(t) EXCEPT
                                    !.total_locations = threads[t].total,
                                    !.source_url = source_thread],
                             "save")
    /\ file_unchanged

\* return self.save_cache()
SaveCache(t) ==
    /\ at(t, "file", "save")
    /\ threads' = [threads EXCEPT ![t].pc = "done", ![t].result = Some(TRUE)]
    /\ UNCHANGED cache_data
    /\ file_unchanged

\* existing_locations = json.loads(self.redis.get(locations_key) or "[]") and
\* the appends to this list
ReadLocations(t) ==
    /\ at(t, "kv", "start")
    /\ threads' = [threads EXCEPT
            ![t].pc = "set_locations",
            ![t].existing_locations =
                kv_locations(redis, shared_city, shared_category)
                    \o [k \in 1..Len(threads[t].verified_locations) |->
                            kv_cache_entry(threads[t].verified_locations[k], shared_city,
                                           shared_category, source_thread)]]
    /\ UNCHANGED redis
    /\ kv_unchanged

\* self.redis.set(locations_key, json.dumps(existing_locations))
SetLocations(t) ==
    /\ at(t, "kv", "set_locations")
    /\ redis' = [redis EXCEPT !.locations =
                    put(@, shared_city, shared_category,
                        Some(threads[t].existing_locations))]
    /\ threads' = [threads EXCEPT ![t].pc = "set_metadata"]
    /\ kv_unchanged

\* self.redis.set(metadata_key, json.dumps(metadata)); return True
SetMetadata(t) ==
    /\ at(t, "kv", "set_metadata")
    /\ redis' = [redis EXCEPT !.metadata =
                    put(@, shared_city, shared_category,
                        Some([total_locations |-> Len(threads[t].existing_locations),
                              source_url |-> source_thread]))]
    /\ threads' = [threads EXCEPT ![t].pc = "done", ![t].result = Some(TRUE)]
    /\ kv_unchanged

ConcurrentNext ==
    \E t \in Threads :
        \/ CheckCity(t)
        \/ CreateCity(t)
        \/ CheckCategory(t)
        \/ CreateCategory(t)
        \/ TakeCategory(t)
        \/ AppendEntry(t)
        \/ CountLocations(t)
        \/ SetTotal(t)
        \/ SaveCache(t)
        \/ ReadLocations(t)
        \/ SetLocations(t)
        \/ SetMetadata(t)

ConcurrentSpec == ConcurrentInit /\ [][ConcurrentNext]_vars

-----------------------------------------------------------------------------
(* BatchProcessor (backend/batch_processor.py).  A data tuple is a sequence *)
(* of a URL and a city, both strings, and a category.  The wall-clock       *)
(* fields (processing_time) are left out of the results and of the report.  *)

b_url == <<"h","t","t","p","s",":","/","/","r","e","d","d","i","t",".","c","o","m","/","r","/","s","j","/","1","a","B">>

b_url_no_scheme == <<"r","e","d","d","i","t",".","c","o","m","/","r","/","s","j","/","1","a","B">>

b_url_elsewhere == <<"h","t","t","p","s",":","/","/","e","x","a","m","p","l","e",".","c","o","m","/","r","/","s","j">>

b_san_jose == <<"S","a","n"," ","J","o","s","e">>

b_blank == <<" ">>

t_viewpoints == <<b_url, b_san_jose, "viewpoints">>

t_hiking == <<b_url, b_san_jose, "hiking_spots">>

t_no_scheme == <<b_url_no_scheme, b_san_jose, "viewpoints">>

t_elsewhere == <<b_url_elsewhere, b_san_jose, "viewpoints">>

t_blank_city == <<b_url, b_blank, "viewpoints">>

t_trails == <<b_url, b_san_jose, "hiking_trails">>

t_pair == <<b_url, b_san_jose>>

TupleInputs == {t_viewpoints, t_hiking, t_no_scheme, t_elsewhere, t_blank_city, t_trails, t_pair}

BatchInputs == UNION {[1..n -> TupleInputs] : n \in 0..MaxBatch}

\* what a request of the `requests` library ends in: a response, or an exception
r_ok == [kind |-> "response", status_code |-> 200, verified_locations |-> 2, raw_locations |-> 3, cached |-> FALSE]

r_ok_none == [kind |-> "response", status_code |-> 200, verified_locations |-> 0, raw_locations |-> 1, cached |-> TRUE]

r_error == [kind |-> "response", status_code |-> 500, detail |-> "Error processing locations"]

r_timeout == [kind |-> "Timeout"]

r_refused == [kind |-> "RequestException"]

Outcomes == {r_ok, r_ok_none, r_error, r_timeout, r_refused}

HealthOutcomes == {[kind |-> "response", status_code |-> 200], [kind |-> "response", status_code |-> 503], r_refused}

\* BatchProcessor.__init__
new_processor == [total_processed |-> 0, total_successful |-> 0, total_failed |-> 0, results |-> <<>>]

check_api_health(outcome) == outcome.kind = "response" /\ outcome.status_code = 200

valid_categories == {"viewpoints", "dog_parks", "hiking_spots"}

\* validate_tuple; the message is the reason, without the offending value
validate_tuple(data_tuple) ==
    IF Len(data_tuple) # 3
    THEN [is_valid |-> FALSE, message |-> "Tuple must have exactly 3 elements"]
    ELSE LET reddit_url == data_tuple[1]
             city == data_tuple[2]
             categ == data_tuple[3]
         IN  IF reddit_url = <<>> \/ ~startswith(reddit_url, <<"h","t","t","p">>)
             THEN [is_valid |-> FALSE, message |-> "Invalid Reddit URL"]
             ELSE IF ~contains(reddit_url, <<"r","e","d","d","i","t",".","c","o","m">>)
             THEN [is_valid |-> FALSE, message |-> "URL must be from reddit.com"]
             ELSE IF city = <<>> \/ strip(city) = <<>>
             THEN [is_valid |-> FALSE, message |-> "City cannot be empty"]
             ELSE IF categ \notin valid_categories
             THEN [is_valid |-> FALSE, message |-> "Category must be one of valid_categories"]
             ELSE [is_valid |-> TRUE, message |-> "Valid"]

\* the JSON body process_single_request posts to the locations endpoint
request_data(reddit_url, city, categ) == [reddit_url |-> reddit_url, city |-> city, category |-> categ]

\* process_single_request, given what the POST ends in
process_single_request(reddit_url, city, categ, outcome) ==
    IF outcome.kind = "response" /\ outcome.status_code = 200
    THEN [status |-> "success", reddit_url |-> reddit_url, city |-> city, category |-> categ,
          verified_count |-> outcome.verified_locations,
          total_extracted |-> outcome.raw_locations, cached |-> outcome.cached]
    ELSE IF outcome.kind = "response"
    THEN [status |-> "failed", reddit_url |-> reddit_url, city |-> city, category |-> categ,
          error |-> outcome.detail, http_status |-> outcome.status_code]
    ELSE IF outcome.kind = "Timeout"
    THEN [status |-> "failed", reddit_url |-> reddit_url, city |-> city, category |-> categ,
          error |-> "Request timeout"]
    ELSE [status |-> "failed", reddit_url |-> reddit_url, city |-> city, category |-> categ,
          error |-> "Connection error"]

\* r.get('verified_count', 0) of the successful results, in order
verified_counts(batch_results) ==
    LET successes == SelectSeq(batch_results, LAMBDA r : r.status = "success")
    IN  [i \in 1..Len(successes) |-> successes[i].verified_count]

\* city_stats[city][category] of generate_summary_report
city_stats(batch_results) ==
    LET successes == SelectSeq(batch_results, LAMBDA r : r.status = "success")
        pairs == {<<successes[i].city, successes[i].category>> : i \in 1..Len(successes)}
    IN  [pair \in pairs |->
            sum_seq(verified_counts(SelectSeq(successes,
                LAMBDA r : <<r.city, r.category>> = pair)))]

\* generate_summary_report; success_rate in tenths of a per cent, truncated
generate_summary_report(self) ==
    [total_processed |-> self.total_processed,
     successful |-> self.total_successful,
     failed |-> self.total_failed,
     success_rate |-> IF self.total_processed > 0
                      THEN (self.total_successful * 1000) \div self.total_processed
                      ELSE 0,
     total_locations |-> sum_seq(verified_counts(self.results)),
     city_stats |-> city_stats(self.results)]

\* one turn of the request loop of process_batch
count_result(self, result) ==
    [self EXCEPT !.results = Append(@, result),
                 !.total_successful = IF result.status = "success" THEN @ + 1 ELSE @,
                 !.total_failed = IF result.status = "success" THEN @ ELSE @ + 1,
                 !.total_processed = @ + 1]

\* the request loop of process_batch
RECURSIVE process_requests(_, _, _)
process_requests(self, batch_data, outcomes) ==
    IF Len(batch_data) = 0 THEN self
    ELSE LET data_tuple == Head(batch_data)
             result == process_single_request(data_tuple[1], data_tuple[2], data_tuple[3], Head(outcomes))
         IN  process_requests(count_result(self, result), Tail(batch_data), Tail(outcomes))

\* self.results = [] before the request loop
reset_results(self) == [self EXCEPT !.results = <<>>]

first_invalid(batch_data) ==
    CHOOSE i \in 1..Len(batch_data) :
        /\ ~validate_tuple(batch_data[i]).is_valid
        /\ \A j \in 1..(i - 1) : validate_tuple(batch_data[j]).is_valid

\* process_batch: the processor afterwards, the location requests it posted
\* and what it returned
process_batch(self, batch_data, health, outcomes) ==
    IF Len(batch_data) = 0
    THEN [self |-> self, posted |-> <<>>,
          returned |-> [success |-> FALSE, error |-> "Empty batch data"]]
    ELSE IF ~check_api_health(health)
    THEN [self |-> self, posted |-> <<>>,
          returned |-> [success |-> FALSE, error |-> "API server not available"]]
    ELSE IF \E i \in 1..Len(batch_data) : ~validate_tuple(batch_data[i]).is_valid
    THEN [self |-> self, posted |-> <<>>,
          returned |-> [success |-> FALSE,
                        error |-> <<"Invalid input data",
                                    validate_tuple(batch_data[first_invalid(batch_data)]).message>>]]
    ELSE LET finished == process_requests(reset_results(self), batch_data, outcomes)
         IN  [self |-> finished,
              posted |-> [i \in 1..Len(batch_data) |->
                            request_data(batch_data[i][1], batch_data[i][2], batch_data[i][3])],
              returned |-> [success |-> TRUE,
                            summary |-> generate_summary_report(finished),
                            detailed_results |-> finished.results]]

BatchInit ==
    /\ NoPipeline
    /\ NoEntry
    /\ NoCache
    /\ processor = new_processor
    /\ batch_run = [calls |-> 0, batch_data |-> <<>>, posted |-> <<>>, returned |-> None]

\* processor.process_batch(batch_data)
ProcessBatch ==
    /\ batch_run.calls < MaxRuns
    /\ \E batch_data \in BatchInputs, health \in HealthOutcomes :
         \E outcomes \in [1..Len(batch_data) -> Outcomes] :
            LET run == process_batch(processor, batch_data, health, outcomes)
            IN  /\ processor' = run.self
                /\ batch_run' = [calls |-> batch_run.calls + 1, batch_data |-> batch_data,
                                 posted |-> run.posted, returned |-> Some(run.returned)]
    /\ UNCHANGED <<pipeline_vars, call, ret, entry_vars, cache_vars>>

BatchNext == ProcessBatch

BatchSpec == BatchInit /\ [][BatchNext]_vars

-----------------------------------------------------------------------------
(* Claims *)

in_validation == pc \in {"validate", "done"}

scoring_complete == pc \in {"score", "validate", "done"} /\ cursor[1] > Len(results)

\* the normalized name of each name of the pipeline's inputs
normalized_name_of == [n \in PipelineNames |-> normalize_location_name(n)]

\* the post p lists a name whose normalized name is k
post_mentions(p, k) ==
    \E j \in 1..Len(results[p].locations) :
        normalized_name_of[results[p].locations[j]] = k

\* the miner finds in comment c of post p a name whose normalized name is k
comment_mentions(p, c, k) ==
    \E j \in 1..Len(results[p].top_comments[c].body) :
        normalized_name_of[results[p].top_comments[c].body[j].name] = k

\* a value in tenths is n / d rounded to one decimal
is_rounding_of(tenths, n, d) ==
    /\ 2 * (d * tenths - 10 * n) <= d
    /\ 2 * (10 * n - d * tenths) <= d

\* C1: every Validated Location has score = round((reddit_score * 0.4 +
\* google_score * 0.6) * context_boost * type_boost, 1) of the components stored
\* in the same record; 10, 8, 1.5, 1.2 give 15.8.
C1_CombinedScore ==
    /\ \A i \in 1..Len(validated_locations) :
          LET v == validated_locations[i]
          IN  is_rounding_of(v.score,
                             (4 * v.reddit_score + 6 * v.google_score)
                                 * v.context_boost * v.type_boost,
                             10000)
    /\ \A tie_up \in BOOLEAN : round1(final_score(100, 80, 15, 12), 10000, tie_up) = 158

C1_Witness ==
    /\ pc = "done"
    /\ \E i \in 1..Len(validated_locations) :
          /\ validated_locations[i].reddit_score = 50
          /\ validated_locations[i].google_score = 70
          /\ validated_locations[i].type_boost = 7
          /\ validated_locations[i].score = 43

\* max(1, post_score / 10) in tenths
claimed_post_term(score) == IF score > 10 THEN score ELSE 10

\* max(1, comment_score / 5) * 1.5 in tenths
claimed_comment_term(score) == IF 3 * score > 15 THEN 3 * score ELSE 15

\* the community score the claim gives to the normalized name k, in tenths
claimed_community_score(k) ==
    sum_seq([p \in 1..Len(results) |->
        (IF post_mentions(p, k) THEN claimed_post_term(results[p].score) ELSE 0)
        + sum_seq([c \in 1..Len(results[p].top_comments) |->
            IF comment_mentions(p, c, k)
            THEN claimed_comment_term(results[p].top_comments[c].score)
            ELSE 0])])

\* C2: a candidate's community score is the sum of max(1, post_score / 10) over
\* the posts whose location list has a name normalizing to its key plus the sum
\* of max(1, comment_score / 5) * 1.5 over the comments whose text yields such a
\* name; a post of score 20 and a comment of score 10 give 5.
C2_CommunityScore ==
    /\ scoring_complete =>
          \A i \in 1..Len(location_scores) :
              location_scores[i].score
                  = 10 * claimed_community_score(location_scores[i].key)
    /\ in_validation =>
          \A i \in 1..Len(reddit_locations) :
              reddit_locations[i].score
                  = claimed_community_score(
                        normalized_name_of[reddit_locations[i].name])

C2_Witness ==
    /\ pc = "validate"
    /\ results = <<[score |-> 20,
                    locations |-> <<n_mount_hamilton>>,
                    top_comments |->
                        <<[score |-> 10,
                           body |-> <<[name |-> n_mount_hamilton,
                                       context |-> "nature"]>>]>>]>>
    /\ Len(reddit_locations) = 1
    /\ reddit_locations[1].score = 50

\* the number of mentions the miner finds for the normalized name k: every name
\* of a post's list and every place of a comment body where a pass finds a name
raw_mentions(k) ==
    sum_seq([p \in 1..Len(results) |->
        Cardinality({j \in 1..Len(results[p].locations) :
            normalized_name_of[results[p].locations[j]] = k})
        + sum_seq([c \in 1..Len(results[p].top_comments) |->
            Cardinality({j \in 1..Len(results[p].top_comments[c].body) :
                normalized_name_of[results[p].top_comments[c].body[j].name]
                    = k})])])

\* the number of names of posts' lists plus the number of comments that mention k
mentioning_items(k) ==
    sum_seq([p \in 1..Len(results) |->
        Cardinality({j \in 1..Len(results[p].locations) :
            normalized_name_of[results[p].locations[j]] = k})
        + sum_seq([c \in 1..Len(results[p].top_comments) |->
            IF comment_mentions(p, c, k) THEN 1 ELSE 0])])

\* the normalized names mentioned anywhere in `results`
mentioned_keys ==
    UNION {{normalized_name_of[results[p].locations[j]] :
                j \in 1..Len(results[p].locations)}
           \cup UNION {{normalized_name_of[results[p].top_comments[c].body[j].name] :
                            j \in 1..Len(results[p].top_comments[c].body)} :
                       c \in 1..Len(results[p].top_comments)} :
           p \in 1..Len(results)}

\* every mentioned normalized name has exactly one candidate
one_candidate_per_key ==
    /\ {location_scores[i].key : i \in 1..Len(location_scores)} = mentioned_keys
    /\ \A i, j \in 1..Len(location_scores) :
          normalized_name_of[location_scores[i].original_name]
              = normalized_name_of[location_scores[j].original_name] => i = j

\* C3 as stated: mentions with the same normalized key merge into exactly one
\* candidate, whose mention count is the total number of mentions merged into it.
C3_MentionCountIsTotalOfMentions ==
    scoring_complete =>
        /\ one_candidate_per_key
        /\ \A i \in 1..Len(location_scores) :
              location_scores[i].mentions = raw_mentions(location_scores[i].key)

\* C3 amended: mentions with the same normalized key merge into exactly one
\* candidate, whose mention count is the number of names of posts' lists plus
\* the number of comments that mention it: a comment counts once, however many
\* mentions of the key the miner finds in it.
C3_MentionCountIsItems ==
    /\ scoring_complete =>
          /\ one_candidate_per_key
          /\ \A i \in 1..Len(location_scores) :
                location_scores[i].mentions
                    = mentioning_items(location_scores[i].key)
    /\ in_validation =>
          \A i, j \in 1..Len(reddit_locations) :
              /\ reddit_locations[i].mentions
                    = mentioning_items(normalized_name_of[reddit_locations[i].name])
              /\ normalized_name_of[reddit_locations[i].name]
                    = normalized_name_of[reddit_locations[j].name] => i = j

C3_Witness ==
    /\ pc = "validate"
    /\ Len(results) = 1
    /\ results[1].locations = <<n_mount_hamilton>>
    /\ Len(results[1].top_comments) = 1
    /\ results[1].top_comments[1].body
          = <<[name |-> n_mt_hamilton, context |-> "recommendation"],
              [name |-> n_mount_hamilton, context |-> "nature"]>>
    /\ Len(location_scores) = 1
    /\ location_scores[1].mentions = 2

\* _is_valid_google_place for each candidate name, category and place of the
\* directory
is_valid_match ==
    [n \in PipelineNames \cup CandidateNames, c \in PipelineCategories,
     place \in DirectoryPlaces |->
        is_valid_google_place([review_count |-> place.userRatingCount,
                               types |-> place.types], n, c)]

\* the place of the directory with this id
place_of == [id \in {p.id : p \in DirectoryPlaces} |->
                CHOOSE p \in DirectoryPlaces : p.id = id]

\* the directory matched the i-th query and the filter accepted the match
accepted(i) ==
    /\ queries[i].google_data # None
    /\ is_valid_match[queries[i].name, category,
                      place_of[queries[i].google_data[1].place_id]]

\* C5: the validator's output has a record only for the candidates the directory
\* matched and _is_valid_google_place accepted, one record each; the others
\* contribute no record, so the output is never longer than the input.
C5_OnlyAcceptedCandidates ==
    in_validation =>
        /\ Len(queries) = vindex
        /\ \A i \in 1..Len(queries) : queries[i].name = reddit_locations[i].name
        /\ LET kept == {j \in 1..Len(queries) : accepted(j)}
           IN  /\ {validated_locations[i].candidate : i \in 1..Len(validated_locations)}
                     = {queries[i].name : i \in kept}
               /\ Len(validated_locations) = Cardinality(kept)
        /\ Len(validated_locations) <= Len(reddit_locations)

C5_Witness ==
    /\ pc = "done"
    /\ Len(queries) = 2
    /\ queries[1].google_data # None
    /\ ~accepted(1)
    /\ queries[2].google_data = None
    /\ validated_locations = <<>>

\* C6: a matched candidate whose name is in the known-landmark allow-list is
\* accepted by _is_valid_google_place for every category, review count and set
\* of directory types.
C6_KnownLandmarkAccepted ==
    (/\ call.op = "_is_valid_google_place"
     /\ ret # None
     /\ lower(call.original_name) \in KNOWN_VIEWPOINTS)
        => ret[1] = TRUE

C6_Witness ==
    /\ call.op = "_is_valid_google_place"
    /\ call.original_name = n_twin_peaks
    /\ call.google_data = [review_count |-> 0, types |-> {"political"}]
    /\ call.category = c_hiking
    /\ ret = Some(TRUE)

\* fewer than 3 reviews and none of natural_feature, park, tourist_attraction
under_review_floor ==
    /\ call.google_data.review_count < 3
    /\ "natural_feature" \notin call.google_data.types
    /\ "park" \notin call.google_data.types
    /\ "tourist_attraction" \notin call.google_data.types

\* C7 as stated: a match with fewer than 3 reviews and none of the types
\* natural_feature, park, tourist_attraction is dropped.
C7_BelowFloorDropped ==
    (/\ call.op = "_is_valid_google_place"
     /\ ret # None
     /\ under_review_floor)
        => ret[1] = FALSE

\* C7 amended: such a match is dropped unless the candidate is a known
\* landmark or one of the two category leniencies accepts it first.
C7_BelowFloorDroppedUnlessExempt ==
    (/\ call.op = "_is_valid_google_place"
     /\ ret # None
     /\ under_review_floor
     /\ ~is_known_landmark(call.original_name)
     /\ ~is_geographic_viewpoint(call.google_data.types, call.original_name,
                                 call.category)
     /\ ~is_hiking_trail(call.original_name, call.category))
        => ret[1] = FALSE

C7_Witness ==
    /\ call.op = "_is_valid_google_place"
    /\ call.original_name = n_joe_diner
    /\ call.google_data = [review_count |-> 2, types |-> {"point_of_interest"}]
    /\ call.category = c_viewpoints
    /\ ret = Some(FALSE)

\* the contexts of the mentions of the normalized name k in comment bodies
mined_contexts(k) ==
    UNION {UNION {{results[p].top_comments[c].body[j].context :
                       j \in {n \in 1..Len(results[p].top_comments[c].body) :
                                normalized_name_of[results[p].top_comments[c].body[n].name] = k}} :
                  c \in 1..Len(results[p].top_comments)} :
           p \in 1..Len(results)}

claimed_context_boost ==
    [recommendation |-> 15, descriptive |-> 13, business |-> 12,
     quoted |-> 11, nature |-> 10, list |-> 9]

\* C8: the context_boost of a Validated Location is the boost of the context tag
\* its candidate carried out of mining (recommendation 1.5, descriptive 1.3,
\* business 1.2, quoted 1.1, nature 1.0, list 0.9).  Stated for the candidates
\* all of whose mentions were mined with one and the same tag.
C8_ContextBoostOfMinedTag ==
    \A i \in 1..Len(validated_locations) :
        LET v == validated_locations[i]
            k == normalized_name_of[v.candidate]
        IN  \A tag \in DOMAIN claimed_context_boost :
                (/\ mined_contexts(k) = {tag}
                 /\ \A p \in 1..Len(results) : ~post_mentions(p, k))
                    => v.context_boost = claimed_context_boost[tag]

\* the review-count factor the claim gives, in tenths
claimed_confidence(review_count) ==
    CASE review_count >= 500 -> 10
      [] review_count >= 100 /\ review_count < 500 -> 9
      [] review_count >= 50 /\ review_count < 100 -> 8
      [] review_count >= 20 /\ review_count < 50 -> 7
      [] review_count >= 10 /\ review_count < 20 -> 6
      [] review_count < 10 -> 4

rating_in_range == call.rating # None /\ call.rating[1] >= 10 /\ call.rating[1] <= 50

\* C9 as stated: for every rating in 1..5 and every review_count >= 0 the
\* result is (rating - 1) * 2.5 * f rounded to one decimal, f being the factor
\* of the review-count band and 0.4 below 10 reviews.
C9_GoogleScoreAllCounts ==
    (/\ call.op = "calculate_google_score"
     /\ ret # None
     /\ rating_in_range
     /\ call.review_count >= 0)
        => is_rounding_of(ret[1],
                          (call.rating[1] - 10) * 25
                              * claimed_confidence(call.review_count),
                          1000)

\* C9 amended: the same for every review_count >= 1; for review_count = 0 the
\* result is 0.0 whatever the rating.
C9_GoogleScorePositiveCounts ==
    (/\ call.op = "calculate_google_score"
     /\ ret # None
     /\ rating_in_range)
        => IF call.review_count >= 1
           THEN is_rounding_of(ret[1],
                               (call.rating[1] - 10) * 25
                                   * claimed_confidence(call.review_count),
                               1000)
           ELSE ret[1] = 0

C9_Witness ==
    /\ call.op = "calculate_google_score"
    /\ call.rating = Some(50)
    /\ call.review_count = 100
    /\ ret = Some(90)

\* C10: _get_type_boost is 1.2 when the types contain any of point_of_interest,
\* establishment, tourist_attraction, natural_feature, amusement_park, park
\* (a general type beside it changes nothing), else 0.7 when they contain any
\* of political, colloquial_area, locality, else 1.0.
C10_TypeBoost ==
    (call.op = "_get_type_boost" /\ ret # None) =>
        ret[1] = IF \E t \in call.place_types :
                       t \in {"point_of_interest", "establishment", "tourist_attraction",
                              "natural_feature", "amusement_park", "park"}
                 THEN 12
                 ELSE IF \E t \in call.place_types :
                             t \in {"political", "colloquial_area", "locality"}
                      THEN 7
                      ELSE 10

C10_Witness ==
    /\ call.op = "_get_type_boost"
    /\ call.place_types = {"park", "political"}
    /\ ret = Some(12)

\* the string is a Mount / Mt. / Mt spelling, in any letter case, of the word x
is_mount_spelling(str, x) == \E p \in MountPrefixes : lower(str) = p \o x

\* C4: _normalize_location_name maps "Mt. Hamilton", "Mount Hamilton" and
\* "mt hamilton", and every Mount / Mt. / Mt spelling and letter case of a
\* single-word name, to one key, so that mentions in these spellings merge into
\* a single candidate.
C4_MountSpellingsShareKey ==
    /\ (call.op = "RedditScraper._normalize_location_name" /\ ret # None) =>
          /\ \A x \in Words :
                is_mount_spelling(call.location, x)
                    => ret[1] = <<"M", "t", " ">> \o title(x)
          /\ call.location \in HamiltonSpellings
                => ret[1] = <<"M","t"," ","H","a","m","i","l","t","o","n">>
    /\ (call.op = "GPTLocationExtractor._normalize_location_name" /\ ret # None) =>
          /\ \A x \in Words :
                is_mount_spelling(call.location, x)
                    => ret[1] = gpt_normalize_location_name(<<"m","o","u","n","t"," ">> \o x)
          /\ call.location \in HamiltonSpellings
                => ret[1] = <<"m","o","u","n","t"," ","h","a","m","i","l","t","o","n">>
    /\ (/\ call.op = "_deduplicate_and_score_locations"
        /\ ret # None
        /\ Len(call.locations) > 0
        /\ \A i \in 1..Len(call.locations) : call.locations[i].name \in HamiltonSpellings)
          => Len(ret[1]) = 1

C4_Witness ==
    /\ call.op = "_deduplicate_and_score_locations"
    /\ Len(call.locations) = 2
    /\ call.locations[1].name = n_mt_hamilton
    /\ call.locations[2].name = n_mt_hamilton_lower
    /\ ret # None
    /\ Len(ret[1]) = 1

-----------------------------------------------------------------------------
(* Claims on ranking, errors and deduplication *)

\* C11: the list the validator returns is ordered by combined score,
\* non-increasing: of every adjacent pair the earlier record's score is >= the
\* later one's, whatever the order of the candidates was.
C11_ValidatedSortedByScore ==
    pc = "done" =>
        \A i \in 1..(Len(validated_locations) - 1) :
            validated_locations[i].score >= validated_locations[i + 1].score

\* the validator returned two records in the reverse of their candidates' order
C11_Witness ==
    /\ pc = "done"
    /\ Len(reddit_locations) = 2
    /\ Len(validated_locations) = 2
    /\ validated_locations[1].candidate = reddit_locations[2].name
    /\ validated_locations[2].candidate = reddit_locations[1].name
    /\ validated_locations[1].score > validated_locations[2].score
    /\ reddit_locations[1].score > reddit_locations[2].score

\* position in location_scores (the order of first encounter) of the i-th
\* candidate handed to validation, 0 when it is none of them
encounter_of(i) ==
    IF \E j \in 1..Len(location_scores) :
            location_scores[j].original_name = reddit_locations[i].name
    THEN CHOOSE j \in 1..Len(location_scores) :
            location_scores[j].original_name = reddit_locations[i].name
    ELSE 0

\* C12: get_top_locations_by_score hands to validation exactly
\* min(top_n, number of distinct keys) candidates, each a distinct key of
\* location_scores; they come in non-increasing community score, candidates of
\* equal score in the order of first encounter, and no key left out has a
\* higher score than one kept.
C12_TopNByCommunityScore ==
    pc = "validate" =>
        LET n == Len(reddit_locations)
            kept == {encounter_of(i) : i \in 1..n}
        IN  /\ n = min(top_n, Len(location_scores))
            /\ 0 \notin kept
            /\ Cardinality(kept) = n
            /\ \A i \in 1..n :
                  reddit_locations[i].score
                      = round1(location_scores[encounter_of(i)].score, 100, FALSE)
            /\ \A i \in 1..(n - 1) :
                  /\ reddit_locations[i].score >= reddit_locations[i + 1].score
                  /\ LET a == location_scores[encounter_of(i)].score
                         b == location_scores[encounter_of(i + 1)].score
                     IN  \/ a > b
                         \/ a = b /\ encounter_of(i) < encounter_of(i + 1)
            /\ \A j \in (1..Len(location_scores)) \ kept :
                  \A i \in 1..n :
                      location_scores[j].score <= location_scores[encounter_of(i)].score

\* of two keys the one met second has the higher score and top_n is 1: the
\* candidate handed to validation is the second key, the first is left out
C12_Witness ==
    /\ pc = "validate"
    /\ top_n = 1
    /\ Len(location_scores) = 2
    /\ location_scores[2].score > location_scores[1].score
    /\ Len(reddit_locations) = 1
    /\ reddit_locations[1].name = location_scores[2].original_name

throttled(http) == http.kind = "response" /\ http.status = 429

\* C13: when the directory answers the request of search_place with status
\* 429, search_place waits the backoff and sends the query a second time,
\* exactly once; it reports None only if the second answer is throttled too,
\* otherwise what the second answer gives.
C13_RetryOnceOn429 ==
    (/\ call.op = "search_place"
     /\ ret # None
     /\ call.api_key
     /\ throttled(call.responses[1]))
        => /\ ret[1].requests = 2
           /\ ret[1].result = search_place(call.location_name, call.responses[2])

political_match == call.op = "_is_valid_google_place" /\ ret # None
                       /\ "political" \in call.google_data.types

\* a political match of another category is accepted only with 20 reviews or
\* more, unless the known-landmark or the hiking rule accepted it
political_elsewhere_needs_twenty ==
    (/\ political_match
     /\ lower(call.category) \notin viewpoint_categories
     /\ ~is_known_landmark(call.original_name)
     /\ ~is_hiking_trail(call.original_name, call.category)
     /\ ret[1] = TRUE)
        => call.google_data.review_count >= 20

\* C20 as stated: for the viewpoints category a match with type political is
\* accepted for every review count, 0 included; for another category it is
\* accepted only with 20 reviews or more (unless the known-landmark or a
\* category leniency accepted it).
C20_PoliticalAcceptedForViewpoints ==
    /\ (political_match /\ lower(call.category) \in viewpoint_categories)
            => ret[1] = TRUE
    /\ political_elsewhere_needs_twenty

\* C20 amended: for the viewpoints category a match with type political is
\* accepted once it is past the review floor and the blocked-area rule (steps
\* that come first), whatever its other types; the rest as stated.
C20_PoliticalAcceptedPastFloor ==
    /\ (/\ political_match
        /\ lower(call.category) \in viewpoint_categories
        /\ \/ call.google_data.review_count >= 3
           \/ call.google_data.types
                \cap {"natural_feature", "park", "tourist_attraction"} # {}
        /\ \/ call.google_data.review_count >= 20
           \/ call.google_data.types
                \cap {"colloquial_area", "country", "administrative_area_level_1"} = {})
            => ret[1] = TRUE
    /\ political_elsewhere_needs_twenty

\* a political locality with 3 reviews, no landmark and no elevation keyword,
\* is accepted for viewpoints
C20_Witness ==
    /\ call.op = "_is_valid_google_place"
    /\ call.original_name = n_joe_diner
    /\ call.google_data = [review_count |-> 3, types |-> {"political", "locality"}]
    /\ call.category = c_viewpoints
    /\ ret = Some(TRUE)

\* the i-th query raised, got an error status, was throttled, or got no match
query_failed(i) ==
    queries[i].met \in {"exception", "error_status", "throttled", "no_match"}

\* C16: a candidate whose directory query raises, gets an error status, is
\* throttled or gets no match yields no record and does not end the loop: when
\* the validator returns, every candidate of the list has been queried, in
\* order, and every later candidate that was matched and passed the filter
\* has its record in the output.
C16_FailedCandidateDoesNotAbort ==
    /\ in_validation =>
            \A i \in 1..Len(queries) : query_failed(i) => queries[i].google_data = None
    /\ pc = "done" =>
            /\ Len(queries) = Len(reddit_locations)
            /\ \A i \in 1..Len(queries) :
                  /\ queries[i].name = reddit_locations[i].name
                  /\ query_failed(i) =>
                        \A j \in (i + 1)..Len(queries) :
                            accepted(j) =>
                                \E k \in 1..Len(validated_locations) :
                                    validated_locations[k].candidate = queries[j].name

\* the first candidate's query raised; the second candidate was still queried,
\* matched and emitted
C16_Witness ==
    /\ pc = "done"
    /\ Len(queries) = 2
    /\ queries[1].met = "exception"
    /\ queries[2].met = "match"
    /\ Len(validated_locations) = 1
    /\ validated_locations[1].candidate = reddit_locations[2].name

\* C17: the deduplicator of name lists is idempotent: run on its own output
\* it returns that output, same names in the same order.
C17_DeduplicationIdempotent ==
    (call.op = "_deduplicate_locations" /\ ret # None)
        => ret[1].twice = ret[1].once

\* a padded name and two spellings of one mountain: the first pass strips and
\* merges, the second changes nothing
C17_Witness ==
    /\ call.op = "_deduplicate_locations"
    /\ call.locations = <<n_twin_peaks_padded, n_mt_hamilton, n_mount_hamilton>>
    /\ ret # None
    /\ ret[1].once = <<strip(n_twin_peaks_padded), n_mt_hamilton>>
    /\ ret[1].twice = ret[1].once

c_dog_parks == <<"d","o","g","_","p","a","r","k","s">>

\* the categories the pipeline is documented for (the docstring of
\* extract_top_locations_from_url and valid_categories of the HTTP layer)
claimed_categories == {c_viewpoints, c_hiking_trails, c_hiking_spots, c_dog_parks}

\* the call has an input error: no submission id in the reference, or a
\* category that is not supported
input_error ==
    /\ request # NoRequest
    /\ \/ extract_submission_id(request.reddit_url) = None
       \/ request.category \notin claimed_categories

\* the entry point reported an error to its caller: it raised, or returned
\* something else than a list of locations
error_reported == returned # None /\ returned[1].raised

\* C14: called with a reference without submission id or with an unsupported
\* category, the entry point fetches nothing, mines nothing, queries nothing
\* and writes nothing, and what it hands back to the caller is an error.
C14_InputErrorReportedBeforeAnyWork ==
    input_error =>
        /\ effects = {}
        /\ queries = <<>>
        /\ database \in InitialDatabases(request)
        /\ pc = "returned" => error_reported

\* the fetch of the discussion failed and the entry point has returned
fetch_failed == "fetch failed" \in effects /\ pc = "returned"

\* what a run that fetched the discussion and confirmed no location returns
successful_empty_result == Some([raised |-> FALSE, value |-> <<>>])

\* C15: when the discussion cannot be fetched the entry point stops: nothing
\* is mined, no directory query is sent, the database is as it was, and what
\* the caller gets differs from the result of a successful run that confirmed
\* no location.
C15_FetchFailureAbortsAndIsReported ==
    fetch_failed =>
        /\ "mine" \notin effects
        /\ "save" \notin effects
        /\ queries = <<>>
        /\ database \in InitialDatabases(request)
        /\ returned # successful_empty_result

\* C18: started empty and given the same calls, the file cache and the
\* key-value cache return the same result at every call.
C18_CachesAnswerAlike == answers.file = answers.kv

\* what the service in use holds for the city and category
stored_locations ==
    IF \A t \in Threads : threads[t].service = "kv"
    THEN [locations |-> kv_locations(redis, shared_city, shared_category),
          total_locations |->
            redis.metadata[<<shared_city, shared_category>>][1].total_locations]
    ELSE IF category_in(cache_data, shared_city, shared_category)
    THEN [locations |-> category_of(cache_data, shared_city, shared_category).locations,
          total_locations |->
            category_of(cache_data, shared_city, shared_category).total_locations]
    ELSE [locations |-> <<>>, total_locations |-> 0]

both_calls_over == threads # <<>> /\ \A t \in Threads : threads[t].pc = "done"

\* C19: when two concurrent add_locations calls for one city and category are
\* over, the stored list has every location of both calls and the recorded
\* total_locations is the length of the stored list.
C19_ConcurrentAddsAllStored ==
    both_calls_over =>
        /\ \A t \in Threads :
              \A k \in 1..Len(threads[t].verified_locations) :
                  \E i \in 1..Len(stored_locations.locations) :
                      stored_locations.locations[i].name
                          = threads[t].verified_locations[k].name
        /\ stored_locations.total_locations = Len(stored_locations.locations)

\* a match of type locality with fewer than 10 reviews that neither the
\* known-landmark override nor a category leniency accepted
locality_match ==
    /\ call.op = "_is_valid_google_place"
    /\ ret # None
    /\ "locality" \in call.google_data.types
    /\ call.google_data.review_count < 10
    /\ ~is_known_landmark(call.original_name)
    /\ ~is_geographic_viewpoint(call.google_data.types, call.original_name, call.category)
    /\ ~is_hiking_trail(call.original_name, call.category)

\* C21 as stated: a match of type locality with fewer than 10 reviews, not
\* accepted by the known-landmark override or a category leniency, is rejected
\* in every category.
C21_LocalityNeverAccepted == locality_match => ret[1] = FALSE

\* C21 amended: such a match is rejected unless it is also of type political
\* and the category is a viewpoint category (the rule for political areas
\* comes first and accepts it).
C21_LocalityRejectedUnlessPoliticalViewpoint ==
    (/\ locality_match
     /\ ~("political" \in call.google_data.types
            /\ lower(call.category) \in viewpoint_categories))
        => ret[1] = FALSE

\* a locality with 9 reviews that passes the review floor is rejected for
\* viewpoints
C21_Witness ==
    /\ call.op = "_is_valid_google_place"
    /\ call.original_name = n_joe_diner
    /\ call.google_data = [review_count |-> 9, types |-> {"locality", "store"}]
    /\ call.category = c_viewpoints
    /\ ret = Some(FALSE)

\* the normalized key of each name the mentions carry
mention_key_of ==
    [n \in {m.name : m \in DedupMentions} |-> normalize_location_name(n)]

\* the mentions of a list that share the key k, by position
mentions_with_key(locations, k) ==
    {i \in 1..Len(locations) : mention_key_of[locations[i].name] = k}

\* the first of the mentions of key k that have the highest confidence
first_most_confident(locations, k) ==
    CHOOSE i \in mentions_with_key(locations, k) :
        \A j \in mentions_with_key(locations, k) :
            \/ locations[j].confidence < locations[i].confidence
            \/ locations[j].confidence = locations[i].confidence /\ j >= i

\* the contexts of the mentions of key k, in the order of the list
contexts_with_key(locations, k) ==
    LET merged == SelectSeq(locations, LAMBDA m : mention_key_of[m.name] = k)
    IN  [i \in 1..Len(merged) |-> merged[i].context]

\* the highest confidence of key k is carried by one name only
one_name_on_top(locations, k) ==
    \A i, j \in mentions_with_key(locations, k) :
        (/\ locations[i].confidence = locations[first_most_confident(locations, k)].confidence
         /\ locations[j].confidence = locations[i].confidence)
            => locations[i].name = locations[j].name

\* the orders in which a list can be processed
reorderings(locations) ==
    {[i \in 1..Len(locations) |-> locations[q[i]]] :
        q \in {f \in [1..Len(locations) -> 1..Len(locations)] :
                    \A a, b \in 1..Len(locations) : f[a] = f[b] => a = b}}

\* C22: of the mentions that share a normalized key, the candidate keeps the
\* name of the one with the highest confidence, the first seen of them on a
\* tie, and the context tags of all of them; the name depends on the order
\* of the mentions only when names tie on the highest confidence.
C22_MergeKeepsMostConfidentName ==
    (call.op = "_deduplicate_and_score_locations" /\ ret # None) =>
        LET unique == unique_locations(call.locations)
        IN  /\ \A i \in 1..Len(call.locations) :
                  index_of(unique, mention_key_of[call.locations[i].name]) # 0
            /\ \A u \in 1..Len(unique) :
                  LET k == unique[u].key
                      top == first_most_confident(call.locations, k)
                  IN  /\ mentions_with_key(call.locations, k) # {}
                      /\ \A v \in 1..Len(unique) : unique[v].key = k => v = u
                      /\ unique[u].name = call.locations[top].name
                      /\ unique[u].max_confidence = call.locations[top].confidence
                      /\ unique[u].contexts = contexts_with_key(call.locations, k)
                      /\ \E r \in 1..Len(ret[1]) : ret[1][r] = unique[u].name
                      /\ one_name_on_top(call.locations, k) =>
                            \A other \in reorderings(call.locations) :
                                LET again == unique_locations(other)
                                IN  again[index_of(again, k)].name = unique[u].name
            /\ Len(ret[1]) = Len(unique)

\* "Mt. Hamilton" and "Mount Hamilton", both found by the recommendation pass,
\* tie on the confidence: the first seen gives the name
C22_Witness ==
    /\ call.op = "_deduplicate_and_score_locations"
    /\ Len(call.locations) = 2
    /\ call.locations[1] = [name |-> n_mt_hamilton, context |-> "recommendation",
                            confidence |-> 90]
    /\ call.locations[2] = [name |-> n_mount_hamilton, context |-> "recommendation",
                            confidence |-> 90]
    /\ ret = Some(<<n_mt_hamilton>>)

\* in a run of the entry point, the name of normalized name k is found in a
\* comment of the submission and not in its title or text
only_in_a_comment(k) ==
    /\ request # NoRequest
    /\ Len(results) = 1
    /\ \A j \in 1..Len(results[1].title) :
           normalized_name_of[results[1].title[j].name] # k
    /\ Cardinality({c \in 1..Len(results[1].top_comments) : comment_mentions(1, c, k)}) = 1

\* C23: through extract_top_locations_from_url a place mentioned in one
\* comment only gets that comment's contribution, max(1, comment_score / 5)
\* times 1.5, and a mention count of 1.
C23_CommentMentionCountedOnce ==
    in_validation =>
        \A i \in 1..Len(reddit_locations) :
            LET k == normalized_name_of[reddit_locations[i].name]
            IN  only_in_a_comment(k) =>
                    /\ reddit_locations[i].mentions = 1
                    /\ \E c \in 1..Len(results[1].top_comments) :
                          /\ comment_mentions(1, c, k)
                          /\ reddit_locations[i].score
                                = claimed_comment_term(results[1].top_comments[c].score)

c_trails == <<"t","r","a","i","l","s">>

\* the hiking categories of the claim: those of the validator and the one the
\* HTTP API and the batch processor accept
claimed_hiking_categories == {c_hiking, c_hiking_trails, c_trails, c_hiking_spots}

\* C24: for every hiking category the service accepts, hiking_spots of the
\* API included, a match whose name contains trail, path, creek, wilderness or
\* preserve is accepted whatever its review count and types.
C24_TrailNamesAcceptedForHiking ==
    (/\ call.op = "_is_valid_google_place"
     /\ ret # None
     /\ call.category \in claimed_hiking_categories
     /\ \E keyword \in trail_keywords :
            contains(strip(lower(call.original_name)), keyword))
        => ret[1] = TRUE

\* the normalized names of the spellings the allow-list holds
landmark_keys ==
    {normalize_location_name(s) :
        s \in {x \in HamiltonSpellings \cup {n_twin_peaks, n_the_twin_peaks} :
                  is_known_landmark(x)}}

validator_key_of == [n \in ValidatorNames |-> normalize_location_name(n)]

\* C25: the known-landmark override is decided on the normalized name: a
\* match whose name normalizes to the key of an allow-listed landmark
\* ("Mt. Hamilton" as "Mount Hamilton") is accepted whatever its review count,
\* types and category.
C25_OverrideOnNormalizedName ==
    (/\ call.op = "_is_valid_google_place"
     /\ ret # None
     /\ validator_key_of[call.original_name] \in landmark_keys)
        => ret[1] = TRUE

\* the words of a Mount/Mt. name after its prefix, in lower case
words_after_prefix(location) ==
    Tail(split(standardize_mount(lower(strip(location)))))

long_mount_key_of == [n \in LongMountNames |-> normalize_location_name(n)]

\* C26: two Mount/Mt. names that differ in a word after the prefix ("Mount San
\* Antonio" and "Mt. San Jacinto", "Mount Diablo" and "Mount Diablo State
\* Park") get different normalized names.
C26_DistinctMountsDistinctKeys ==
    (/\ call.op = "RedditScraper._normalize_location_name"
     /\ ret # None
     /\ call.location \in LongMountNames)
        => \A other \in LongMountNames :
              words_after_prefix(other) # words_after_prefix(call.location)
                  => long_mount_key_of[other] # ret[1]

\* C27: no two locations of the list extract_top_locations_from_url returns
\* have the same place_id or the same canonical name.
C27_ReturnedPlacesAreDistinct ==
    (request # NoRequest /\ returned # None) =>
        LET top_locations == returned[1].value
        IN  \A i, j \in 1..Len(top_locations) :
                i # j =>
                    /\ top_locations[i].location.place_id # top_locations[j].location.place_id
                    /\ top_locations[i].location.name # top_locations[j].location.name

\* every post and comment has been scored and the ranked list has been cut
ranking_complete ==
    pc \in {"validate", "done", "returned"} /\ cursor[1] > Len(results)

\* C28: no directory query is made before scoring and truncation are over;
\* the ranked list has at most top_n candidates, in descending community
\* score; the queries made so far are those of the first candidates of the
\* list, one each and in its order, and when the validator is done every
\* candidate has been queried once: at most top_n queries in all.
C28_QueriesFollowTruncatedRanking ==
    /\ ~ranking_complete => queries = <<>> /\ reddit_locations = <<>>
    /\ ranking_complete =>
          /\ Len(reddit_locations) <= top_n
          /\ Len(queries) <= Len(reddit_locations)
          /\ \A i \in 1..Len(queries) : queries[i].name = reddit_locations[i].name
          /\ \A i, j \in 1..Len(reddit_locations) :
                /\ i < j => reddit_locations[i].score >= reddit_locations[j].score
                /\ i # j => normalized_name_of[reddit_locations[i].name]
                                # normalized_name_of[reddit_locations[j].name]
          /\ pc \in {"done", "returned"} => Len(queries) = Len(reddit_locations)

\* two names were mined, the target count is 1, and the validator is done
\* after its only query
C28_Witness ==
    /\ pc = "returned"
    /\ top_n = 1
    /\ Len(location_scores) = 2
    /\ Len(reddit_locations) = 1
    /\ Len(queries) = 1
    /\ queries[1].name = reddit_locations[1].name

\* C29: in GPTCacheService, after any sequence of add_locations and
\* clear_cache calls, get_locations(city, category) returns the entries of the
\* locations added for that pair since the last clear_cache, in the order
\* they were added, so an add for one pair leaves the other pairs' lists as
\* they were; and total_locations of every stored category is the length of
\* its list.
C29_FileCacheHoldsWhatWasAdded ==
    added # <<>> =>
        \A city \in CacheCities, categ \in CacheCategories :
            /\ file_get_locations(cache_data, Some(city), Some(categ))
                  = [i \in 1..Len(added[<<city, categ>>]) |->
                        cache_entry(added[<<city, categ>>][i], city, categ, source_thread)]
            /\ category_in(cache_data, city, categ) =>
                  category_of(cache_data, city, categ).total_locations
                      = Len(category_of(cache_data, city, categ).locations)

\* two adds for San Jose viewpoints and one for Oakland viewpoints
C29_Witness ==
    /\ added # <<>>
    /\ answers.calls = 3
    /\ added[<<"San Jose", "viewpoints">>] = <<l_verified, l_unverified>>
    /\ added[<<"Oakland", "viewpoints">>] = <<l_unverified>>
    /\ category_of(cache_data, "San Jose", "viewpoints").total_locations = 2

\* C30: for a BatchProcessor, after any sequence of process_batch calls,
\* total_processed = total_successful + total_failed = the number of entries
\* in results, so the summary report of a call describes exactly the requests
\* of that call; and a batch containing any invalid tuple sends no location
\* request at all.
C30_CountersDescribeTheCall ==
    batch_run.calls > 0 =>
        /\ processor.total_processed = processor.total_successful + processor.total_failed
        /\ processor.total_processed = Len(processor.results)
        /\ batch_run.returned[1].success =>
              LET summary == batch_run.returned[1].summary
                  detailed == batch_run.returned[1].detailed_results
              IN  /\ summary.total_processed = Len(batch_run.batch_data)
                  /\ summary.successful
                       = Cardinality({i \in 1..Len(detailed) : detailed[i].status = "success"})
                  /\ summary.failed
                       = Cardinality({i \in 1..Len(detailed) : detailed[i].status = "failed"})
        /\ (\E i \in 1..Len(batch_run.batch_data) :
                ~validate_tuple(batch_run.batch_data[i]).is_valid)
              => batch_run.posted = <<>>

=============================================================================
